---- MODULE Spec2Model ----
(***************************************************************************)
(* EcoPlate gamification: the user_points / product_sustainability_metrics *)
(* / badges / user_badges tables and the service functions that work on    *)
(* them (getOrCreateUserPoints, awardPoints, getUserBadgeMetrics,          *)
(* checkAndAwardBadges).  Every service function is a chain of awaited     *)
(* database operations; one action of the model is one database operation  *)
(* together with the synchronous code that follows it up to the next       *)
(* await, so that calls of different requests can interleave exactly where *)
(* the JavaScript event loop lets them.                                    *)
(***************************************************************************)
EXTENDS Integers, Sequences, FiniteSets, Bags, TLC

VARIABLES
    userPoints,         \* user_points: userId -> sequence of rows of that user
    metrics,            \* product_sustainability_metrics: bag of rows
    badges,             \* badges: set of rows
    userBadges,         \* user_badges: bag of rows [userId, badgeId]
    userBadgesUnique,   \* whether the database declares UNIQUE(user_id, badge_id)
    pc,                 \* per request: the await it is suspended at
    loc,                \* per request: its local variables
    ret,                \* per request: what its last call returned
    calls,              \* number of calls started so far
    awardCalls,         \* per user: awardPoints calls that returned
    reported,           \* bag of [userId, code]: badges returned as newly awarded
    listings,           \* marketplace_listings: id -> row
    conversations,      \* conversations: sequence of rows, the id being the position
    messages,           \* messages: sequence of rows, the id being the position
    handled,            \* number of times a protected handler was invoked
    now,                \* the server's clock, in days
    vm,                 \* the state of the useVendingMachine hook
    timers,             \* the pending setTimeout callbacks of the hook: kind -> count
    fridge,             \* products: the fridge rows [id, userId, quantity, listed]
    foreignKeys         \* whether the connection enforces foreign keys

\* the tables of the gamification layer, and those of the messaging layer
gamVars == <<userPoints, metrics, badges, userBadges, userBadgesUnique,
             awardCalls, reported>>
fridgeVars == <<fridge, foreignKeys>>
sideVars == <<handled, now, vm, timers, fridgeVars>>
appVars == <<listings, conversations, messages, sideVars>>

vars == <<gamVars, appVars, pc, loc, ret, calls>>

----------------------------------------------------------------------------
(* Bounds of the model *)

MaxCalls == 2           \* calls started in one behaviour of Spec
MaxSeedPoints == 2      \* totalPoints of the user_points row seeded in Spec
MaxBadgeOps == 3        \* badge checks and metric inserts in one behaviour of SpecBadges
MaxConsumed == 16       \* 'consumed' rows a user starts with in SpecBadges
MaxWasted == 5          \* 'wasted' rows a user starts with in SpecBadges
MaxShared == 0          \* 'shared' rows a user starts with in SpecBadges
MaxSold == 0            \* 'sold' rows a user starts with in SpecBadges
MaxInitPoints == 0      \* totalPoints a user starts with in SpecBadges
MaxMetricOps == 3       \* metric inserts and aggregations in one behaviour of SpecMetrics
MaxConfirmOps == 3      \* consumption calls in one behaviour of SpecConsumption
MaxIngredients == 2     \* ingredients / wasted items of one consumption call
MaxChatOps == 3         \* requests in one behaviour of SpecChat
MaxInboxOps == 2        \* service calls in one behaviour of SpecInbox
MaxMessages == 3        \* messages that exist at the start of SpecInbox
MaxAuthOps == 2         \* protected requests in one behaviour of SpecAuth
MaxNow == 8             \* days the clock of SpecAuth runs
MaxVmOps == 5           \* operations of the hook called in one behaviour of SpecVending
MaxThreadOps == 2       \* requests in one behaviour of SpecThread
MaxThreadMessages == 2  \* messages that exist at the start of SpecThread
MaxConsumeOps == 2      \* consume requests in one behaviour of SpecFridge

----------------------------------------------------------------------------
(* Values *)

Users == {1, 2}
Procs == {1, 2}

\* JavaScript null / undefined / a number, kept apart from each other
Null == [k |-> "null"]
Undefined == [k |-> "undefined"]
Num(n) == [k |-> "num", n |-> n]

\* x ?? d
Coalesce(x, d) == IF x = Null \/ x = Undefined THEN d ELSE x

\* the truthiness of a nullable number
Truthy(x) == x # Null /\ x # Undefined /\ x.n # 0

Max(a, b) == IF a >= b THEN a ELSE b

\* findFirst on an empty result
NoRow == [absent |-> TRUE]

PointActions == {"consumed", "shared", "sold", "wasted"}

\* no listing, conversation or message exists
ChatOff ==
    /\ listings = << >>
    /\ conversations = << >>
    /\ messages = << >>

\* const TOKEN_EXPIRY = "7d"
TOKEN_EXPIRY == 7

\* no protected request was handled yet
AuthOff ==
    /\ handled = 0
    /\ now = 0

TimerKinds == {"emptySlot", "complete", "failed", "returned"}

\* useState(...) of useVendingMachine; null is NoSlot, the products are the
\* slot codes that hold a listing
NoSlot == << >>

VmInitial ==
    [products |-> {}, loading |-> TRUE, error |-> "none", selectedSlot |-> NoSlot,
     inputCode |-> << >>, balance |-> 0, status |-> "idle",
     displayMessage |-> "welcome", dispensedProduct |-> NoSlot, was |-> "idle"]

VendingOff ==
    /\ vm = VmInitial
    /\ timers = [k \in TimerKinds |-> 0]

\* an empty fridge
FridgeOff ==
    /\ fridge = {}
    /\ foreignKeys = FALSE

\* the layers a specification does not exercise, empty
AppOff == ChatOff /\ AuthOff /\ VendingOff /\ FridgeOff

POINT_VALUES_NoPenalty ==
    [consumed |-> 5, shared |-> 10, sold |-> 10, wasted |-> 0]

POINT_VALUES ==
    [consumed |-> 5, shared |-> 10, sold |-> 8, wasted |-> 0 - 3]

----------------------------------------------------------------------------
(* Table operations *)

\* column defaults of user_points
DefaultUserPoints == [totalPoints |-> 0, currentStreak |-> 0, totalCo2Saved |-> 0]

\* db.query.userPoints.findFirst({ where: eq(userPoints.userId, u) })
FindUserPoints(tbl, u) == IF Len(tbl[u]) > 0 THEN tbl[u][1] ELSE NoRow

\* user_points.user_id is UNIQUE: a second row for a user is refused
UserPointsInsertFails(tbl, u) == Len(tbl[u]) > 0

InsertUserPoints(tbl, u) == [tbl EXCEPT ![u] = Append(@, DefaultUserPoints)]

\* db.update(userPoints).set({ totalPoints: v }).where(eq(userPoints.userId, u))
SetTotalPoints(tbl, u, v) ==
    [tbl EXCEPT ![u] = [i \in 1..Len(@) |-> [@[i] EXCEPT !.totalPoints = v]]]

\* db.update(userPoints).set({ totalCo2Saved: v }).where(eq(userPoints.userId, u))
SetTotalCo2Saved(tbl, u, v) ==
    [tbl EXCEPT ![u] = [i \in 1..Len(@) |-> [@[i] EXCEPT !.totalCo2Saved = v]]]

\* the row awardPoints inserts into product_sustainability_metrics
MetricRow_NoDefaults(userId, action, productId, quantity) ==
    [productId |-> productId, userId |-> userId,
     quantity |-> Coalesce(quantity, Num(0)), type |-> action]

MetricRow(userId, action, productId, quantity) ==
    [productId |-> Coalesce(productId, Null), userId |-> userId,
     quantity |-> Coalesce(quantity, Num(1)), type |-> action]

InsertMetric(tbl, row) == tbl (+) SetToBag({row})

----------------------------------------------------------------------------
(* getOrCreateUserPoints and awardPoints, piece by piece *)

\* if (!points)
NeedsInsert_Always(points) == TRUE

NeedsInsert(points) == points = NoRow

\* Math.max(0, userPoints.totalPoints + amount)
NewTotal_NoClamp(total, amount) == total + amount

NewTotal(total, amount) == Max(0, total + amount)

\* if (action === "sold" && listingData?.co2Saved)
Co2Credited_AnyAction(action, listingData) ==
    listingData # Undefined /\ Truthy(listingData.co2Saved)

Co2Credited(action, listingData) ==
    action = "sold" /\ listingData # Undefined /\ Truthy(listingData.co2Saved)

Idle == [op |-> "none", status |-> "none"]

\* a call returned (or threw): the request is free again
Finish(p, result) ==
    /\ pc' = [pc EXCEPT ![p] = "idle"]
    /\ loc' = [loc EXCEPT ![p] = Idle]
    /\ ret' = [ret EXCEPT ![p] = result]

\* getOrCreateUserPoints hands its row to its caller: to the awaiting awardPoints
\* (which goes on to its next database operation) or to the request itself
GocDone(p, points) ==
    IF loc[p].op = "getOrCreateUserPoints"
    THEN Finish(p, [op |-> "getOrCreateUserPoints", status |-> "ok",
                    userId |-> loc[p].gocUser, value |-> points,
                    before |-> loc[p].before])
    ELSE /\ pc' = [pc EXCEPT ![p] = loc[p].gocRet]
         /\ loc' = [loc EXCEPT ![p] = [@ EXCEPT ![loc[p].gocDest] = points]]
         /\ UNCHANGED ret

\* what the myfridge consume route answers, with what the request found
ConsumeResult(p, code) ==
    [op |-> "consume", status |-> "ok", code |-> code, userId |-> loc[p].userId,
     id |-> loc[p].id, body |-> loc[p].body, before |-> loc[p].before,
     metricsBefore |-> loc[p].metricsBefore, fridgeBefore |-> loc[p].fridgeBefore]

\* an uncaught database error rejects the call; the consume route catches it
\* and answers 500
Throw(p) ==
    IF loc[p].op = "consume"
    THEN Finish(p, ConsumeResult(p, 500))
    ELSE Finish(p, [op |-> loc[p].op, status |-> "threw", userId |-> loc[p].userId,
                    before |-> loc[p].before])

StartGetOrCreateUserPoints(p, u) ==
    /\ pc[p] = "idle"
    /\ calls < MaxCalls
    /\ calls' = calls + 1
    /\ pc' = [pc EXCEPT ![p] = "goc_find"]
    /\ loc' = [loc EXCEPT ![p] =
                 [op |-> "getOrCreateUserPoints", userId |-> u, gocUser |-> u,
                  before |-> userPoints]]
    /\ ret' = [ret EXCEPT ![p] = Idle]
    /\ UNCHANGED <<userPoints, metrics, badges, userBadges, userBadgesUnique,
                   awardCalls, reported>>
    /\ UNCHANGED appVars

\* let points = await db.query.userPoints.findFirst(...); if (!points) ...
GocFind(p) ==
    /\ pc[p] = "goc_find"
    /\ LET points == FindUserPoints(userPoints, loc[p].gocUser)
       IN  IF NeedsInsert(points)
           THEN /\ pc' = [pc EXCEPT ![p] = "goc_insert"]
                /\ UNCHANGED <<loc, ret>>
           ELSE GocDone(p, points)
    /\ UNCHANGED <<userPoints, metrics, badges, userBadges, userBadgesUnique,
                   calls, awardCalls, reported>>
    /\ UNCHANGED appVars

\* const [created] = await db.insert(userPoints).values({ userId }).returning()
GocInsert(p) ==
    /\ pc[p] = "goc_insert"
    /\ IF UserPointsInsertFails(userPoints, loc[p].gocUser)
       THEN /\ Throw(p)
            /\ UNCHANGED userPoints
       ELSE /\ userPoints' = InsertUserPoints(userPoints, loc[p].gocUser)
            /\ GocDone(p, DefaultUserPoints)
    /\ UNCHANGED <<metrics, badges, userBadges, userBadgesUnique,
                   calls, awardCalls, reported>>
    /\ UNCHANGED appVars

\* the arguments the callers pass: (productId, quantity) and listingData
ProductQuantityArgs ==
    {<<Undefined, Undefined>>, <<Num(7), Num(2)>>, <<Null, Num(2)>>}

SoldListingData ==
    {Undefined,
     [co2Saved |-> Null, buyerId |-> Num(1)],
     [co2Saved |-> Num(0), buyerId |-> Num(2)],
     [co2Saved |-> Num(3), buyerId |-> Null],
     [co2Saved |-> Num(3), buyerId |-> Num(1)],
     [co2Saved |-> Num(3), buyerId |-> Num(2)]}

ListingDataArgs(action) ==
    IF action = "sold" THEN SoldListingData
    ELSE {Undefined, [co2Saved |-> Num(3), buyerId |-> Num(2)]}

\* const amount = POINT_VALUES[action];
\* const userPoints = await getOrCreateUserPoints(db, userId);
StartAwardPoints(p, u, action, productId, quantity, listingData) ==
    /\ pc[p] = "idle"
    /\ calls < MaxCalls
    /\ calls' = calls + 1
    /\ pc' = [pc EXCEPT ![p] = "goc_find"]
    /\ loc' = [loc EXCEPT ![p] =
                 [op |-> "awardPoints", userId |-> u, action |-> action,
                  productId |-> productId, quantity |-> quantity,
                  listingData |-> listingData, amount |-> POINT_VALUES[action],
                  gocUser |-> u, gocRet |-> "ap_update", gocDest |-> "userPoints",
                  userPoints |-> NoRow, buyerPoints |-> NoRow,
                  newTotal |-> 0, co2Saved |-> Null,
                  before |-> userPoints, metricsBefore |-> metrics]]
    /\ ret' = [ret EXCEPT ![p] = Idle]
    /\ UNCHANGED <<userPoints, metrics, badges, userBadges, userBadgesUnique,
                   awardCalls, reported>>
    /\ UNCHANGED appVars

\* return { action, amount, newTotal, newBadges: [], co2Saved }
AwardPointsResult(p, co2Saved) ==
    [op |-> "awardPoints", status |-> "ok", userId |-> loc[p].userId,
     action |-> loc[p].action, amount |-> loc[p].amount,
     newTotal |-> loc[p].newTotal, co2Saved |-> co2Saved,
     productId |-> loc[p].productId, quantity |-> loc[p].quantity,
     listingData |-> loc[p].listingData,
     before |-> loc[p].before, metricsBefore |-> loc[p].metricsBefore]

\* awardPoints returns: to the request itself, or to the consume route that
\* awaits it and goes on to delete the product
AwardPointsReturn(p, co2Saved) ==
    /\ IF loc[p].op = "consume"
       THEN /\ pc' = [pc EXCEPT ![p] = "cs_delete"]
            /\ loc' = [loc EXCEPT ![p].co2Saved = co2Saved]
            /\ UNCHANGED ret
       ELSE Finish(p, AwardPointsResult(p, co2Saved))
    /\ awardCalls' = [awardCalls EXCEPT ![loc[p].userId] = @ + 1]

\* const newTotal = Math.max(0, userPoints.totalPoints + amount);
\* await db.update(userPoints).set({ totalPoints: newTotal }).where(...)
ApUpdatePoints(p) ==
    /\ pc[p] = "ap_update"
    /\ LET newTotal == NewTotal(loc[p].userPoints.totalPoints, loc[p].amount)
       IN  /\ userPoints' = SetTotalPoints(userPoints, loc[p].userId, newTotal)
           /\ loc' = [loc EXCEPT ![p].newTotal = newTotal]
    /\ pc' = [pc EXCEPT ![p] = "ap_metric"]
    /\ UNCHANGED <<metrics, badges, userBadges, userBadgesUnique,
                   ret, calls, awardCalls, reported>>
    /\ UNCHANGED appVars

\* await db.insert(productSustainabilityMetrics).values({...});
\* if (action === "sold" && listingData?.co2Saved) ... else return
ApInsertMetric(p) ==
    /\ pc[p] = "ap_metric"
    /\ metrics' = InsertMetric(metrics,
                     MetricRow(loc[p].userId, loc[p].action,
                               loc[p].productId, loc[p].quantity))
    /\ IF Co2Credited(loc[p].action, loc[p].listingData)
       THEN /\ pc' = [pc EXCEPT ![p] = "ap_co2_seller"]
            /\ loc' = [loc EXCEPT ![p].co2Saved = loc[p].listingData.co2Saved]
            /\ UNCHANGED <<ret, awardCalls>>
       ELSE AwardPointsReturn(p, Null)
    /\ UNCHANGED <<userPoints, badges, userBadges, userBadgesUnique,
                   calls, reported>>
    /\ UNCHANGED appVars

\* await db.update(userPoints)
\*   .set({ totalCo2Saved: userPoints.totalCo2Saved + co2Saved }).where(seller)
\* if (listingData.buyerId) { const buyerPoints = await getOrCreateUserPoints(...)
ApCo2Seller(p) ==
    /\ pc[p] = "ap_co2_seller"
    /\ userPoints' = SetTotalCo2Saved(userPoints, loc[p].userId,
                        loc[p].userPoints.totalCo2Saved + loc[p].co2Saved.n)
    /\ IF Truthy(loc[p].listingData.buyerId)
       THEN /\ pc' = [pc EXCEPT ![p] = "goc_find"]
            /\ loc' = [loc EXCEPT ![p] =
                         [@ EXCEPT !.gocUser = loc[p].listingData.buyerId.n,
                                   !.gocRet = "ap_co2_buyer",
                                   !.gocDest = "buyerPoints"]]
            /\ UNCHANGED <<ret, awardCalls>>
       ELSE AwardPointsReturn(p, loc[p].co2Saved)
    /\ UNCHANGED <<metrics, badges, userBadges, userBadgesUnique,
                   calls, reported>>
    /\ UNCHANGED appVars

\* await db.update(userPoints)
\*   .set({ totalCo2Saved: buyerPoints.totalCo2Saved + co2Saved }).where(buyer)
ApCo2Buyer(p) ==
    /\ pc[p] = "ap_co2_buyer"
    /\ userPoints' = SetTotalCo2Saved(userPoints, loc[p].listingData.buyerId.n,
                        loc[p].buyerPoints.totalCo2Saved + loc[p].co2Saved.n)
    /\ AwardPointsReturn(p, loc[p].co2Saved)
    /\ UNCHANGED <<metrics, badges, userBadges, userBadgesUnique,
                   calls, reported>>
    /\ UNCHANGED appVars

----------------------------------------------------------------------------
(* The points service, one request at a time *)

\* db.insert(userPoints).values({ userId, totalPoints: n }): a seeded row
SeededUserPoints(n) == [DefaultUserPoints EXCEPT !.totalPoints = n]

Init ==
    /\ \E seeded \in {<< >>} \cup {<<SeededUserPoints(n)>> : n \in 0..MaxSeedPoints} :
          userPoints = [u \in Users |-> IF u = 1 THEN seeded ELSE << >>]
    /\ metrics = EmptyBag
    /\ badges = {}
    /\ userBadges = EmptyBag
    /\ userBadgesUnique = FALSE
    /\ pc = [p \in Procs |-> "idle"]
    /\ loc = [p \in Procs |-> Idle]
    /\ ret = [p \in Procs |-> Idle]
    /\ calls = 0
    /\ awardCalls = [u \in Users |-> 0]
    /\ reported = EmptyBag
    /\ AppOff

PointsStep(p) ==
    \/ \E u \in Users : StartGetOrCreateUserPoints(p, u)
    \/ \E u \in Users, action \in PointActions, pq \in ProductQuantityArgs :
          \E listingData \in ListingDataArgs(action) :
             StartAwardPoints(p, u, action, pq[1], pq[2], listingData)
    \/ GocFind(p)
    \/ GocInsert(p)
    \/ ApUpdatePoints(p)
    \/ ApInsertMetric(p)
    \/ ApCo2Seller(p)
    \/ ApCo2Buyer(p)

Next == PointsStep(1)

Spec == Init /\ [][Next]_vars

----------------------------------------------------------------------------
(* Badges: getUserBadgeMetrics and checkAndAwardBadges *)

BADGE_DEFINITIONS ==
    << [code |-> "first_action", pointsAwarded |-> 25],
       [code |-> "eco_starter", pointsAwarded |-> 50],
       [code |-> "first_consume", pointsAwarded |-> 25],
       [code |-> "waste_warrior", pointsAwarded |-> 100],
       [code |-> "first_sale", pointsAwarded |-> 25] >>

BadgeCodes == {BADGE_DEFINITIONS[i].code : i \in 1..Len(BADGE_DEFINITIONS)}

\* for (const def of BADGE_DEFINITIONS) await db.insert(badges).values({...})
SeedBadges(codes) ==
    {[id |-> i, code |-> BADGE_DEFINITIONS[i].code,
      pointsAwarded |-> BADGE_DEFINITIONS[i].pointsAwarded] :
        i \in {j \in 1..Len(BADGE_DEFINITIONS) : BADGE_DEFINITIONS[j].code \in codes}}

\* String.prototype.toLowerCase on the type values that occur
ToLowerCase_AsIs(s) == s

ToLowerCase(s) ==
    CASE s = "Consume" -> "consume"
      [] s = "Waste" -> "waste"
      [] s = "Consumed" -> "consumed"
      [] s = "WASTED" -> "wasted"
      [] s = "Shared" -> "shared"
      [] s = "SOLD" -> "sold"
      [] OTHER -> s

\* (interaction.type || "").toLowerCase(); a NULL type column is the row type ""
NormalType(row) == ToLowerCase(row.type)

RECURSIVE CopiesOver(_, _)
CopiesOver(B, S) ==
    IF S = {} THEN 0
    ELSE LET e == CHOOSE x \in S : TRUE
         IN  CopiesIn(e, B) + CopiesOver(B, S \ {e})

\* number of rows of a table that satisfy a test
CountRows(B, Test(_)) == CopiesOver(B, {r \in BagToSet(B) : Test(r)})

\* (totalActions / totalItems) * 100, kept exact as a fraction
Rate(totalActions, totalItems) ==
    IF totalItems > 0 THEN [num |-> totalActions * 100, den |-> totalItems]
    ELSE [num |-> 0, den |-> 1]

\* rate >= pct.  The only quotient whose percentage is 80 is 0.8, and the double
\* 0.8 * 100 is exactly 80, so the comparison of doubles agrees with this one
RateAtLeast(rate, pct) == rate.num >= pct * rate.den

\* getUserBadgeMetrics, from the rows its two queries returned
BadgeMetrics(points, rows, userId) ==
    LET Consumed(r) == r.userId = userId /\ NormalType(r) \in {"consumed", "consume"}
        Wasted(r) == r.userId = userId /\ NormalType(r) \in {"wasted", "waste"}
        Shared(r) == r.userId = userId /\ NormalType(r) = "shared"
        Sold(r) == r.userId = userId /\ NormalType(r) = "sold"
        totalConsumed == CountRows(rows, Consumed)
        totalWasted == CountRows(rows, Wasted)
        totalShared == CountRows(rows, Shared)
        totalSold == CountRows(rows, Sold)
        totalActions == totalConsumed + totalShared + totalSold
        totalItems == totalActions + totalWasted
    IN  [totalPoints |-> IF points = NoRow THEN 0 ELSE points.totalPoints,
         currentStreak |-> IF points = NoRow THEN 0 ELSE points.currentStreak,
         longestStreak |-> 0,
         totalConsumed |-> totalConsumed, totalWasted |-> totalWasted,
         totalShared |-> totalShared, totalSold |-> totalSold,
         totalActions |-> totalActions, totalItems |-> totalItems,
         wasteReductionRate |-> Rate(totalActions, totalItems)]

\* BADGE_DEFINITIONS[..].condition
Condition_EcoStarterEarly(code, m) ==
    CASE code = "first_action" -> m.totalActions >= 1
      [] code = "eco_starter" -> m.totalActions >= 1
      [] code = "first_consume" -> m.totalConsumed >= 1
      [] code = "waste_warrior" ->
            RateAtLeast(m.wasteReductionRate, 80) /\ m.totalItems >= 20
      [] code = "first_sale" -> m.totalSold >= 1

Condition_NoMinimumItems(code, m) ==
    CASE code = "first_action" -> m.totalActions >= 1
      [] code = "eco_starter" -> m.totalActions >= 10
      [] code = "first_consume" -> m.totalConsumed >= 1
      [] code = "waste_warrior" -> RateAtLeast(m.wasteReductionRate, 80)
      [] code = "first_sale" -> m.totalSold >= 1

Condition(code, m) ==
    CASE code = "first_action" -> m.totalActions >= 1
      [] code = "eco_starter" -> m.totalActions >= 10
      [] code = "first_consume" -> m.totalConsumed >= 1
      [] code = "waste_warrior" ->
            RateAtLeast(m.wasteReductionRate, 80) /\ m.totalItems >= 20
      [] code = "first_sale" -> m.totalSold >= 1

\* badgeByCode.get(def.code)
BadgeByCode(allBadges, code) ==
    IF \E b \in allBadges : b.code = code
    THEN CHOOSE b \in allBadges : b.code = code
    ELSE NoRow

\* new Set(earnedUserBadges.map((ub) => ub.badgeId))
EarnedBadgeIds(tbl, userId) ==
    {r.badgeId : r \in {x \in BagToSet(tbl) : x.userId = userId}}

\* earnedBadgeIds.has(dbBadge.id)
IsEarned_Never(earnedBadgeIds, id) == FALSE

IsEarned(earnedBadgeIds, id) == id \in earnedBadgeIds

\* the three `continue`s at the head of the loop body
ShouldAward(l, i) ==
    LET dbBadge == BadgeByCode(l.allBadges, BADGE_DEFINITIONS[i].code)
    IN  /\ dbBadge # NoRow
        /\ ~IsEarned(l.earnedBadgeIds, dbBadge.id)
        /\ Condition(BADGE_DEFINITIONS[i].code, l.metrics)

\* the next definition, from index `from` on, whose insert the loop reaches (0: none)
NextDef(l, from) ==
    LET S == {i \in from..Len(BADGE_DEFINITIONS) : ShouldAward(l, i)}
    IN  IF S = {} THEN 0 ELSE CHOOSE i \in S : \A j \in S : i <= j

\* UNIQUE(user_id, badge_id), where the database declares it
UserBadgeInsertFails(tbl, unique, row) == unique /\ CopiesIn(row, tbl) > 0

\* totalPoints: userPoints.totalPoints + dbBadge.pointsAwarded
BonusTotal(total, pointsAwarded) == total + pointsAwarded

RECURSIVE SeqToBag(_)
SeqToBag(q) == IF q = << >> THEN EmptyBag ELSE SetToBag({Head(q)}) (+) SeqToBag(Tail(q))

StartCheckAndAwardBadges(p, u) ==
    /\ pc[p] = "idle"
    /\ calls < MaxBadgeOps
    /\ calls' = calls + 1
    /\ pc' = [pc EXCEPT ![p] = "cab_points"]
    /\ loc' = [loc EXCEPT ![p] =
                 [op |-> "checkAndAwardBadges", userId |-> u,
                  points |-> NoRow, metrics |-> NoRow, allBadges |-> {},
                  earnedBadgeIds |-> {}, newlyAwarded |-> << >>, i |-> 0,
                  bonusPoints |-> NoRow,
                  before |-> userPoints, earnedBefore |-> userBadges]]
    /\ ret' = [ret EXCEPT ![p] = Idle]
    /\ UNCHANGED <<userPoints, metrics, badges, userBadges, userBadgesUnique,
                   awardCalls, reported>>
    /\ UNCHANGED appVars

\* getUserBadgeMetrics: const userPoints = await db.query.userPoints.findFirst(...)
CabReadPoints(p) ==
    /\ pc[p] = "cab_points"
    /\ loc' = [loc EXCEPT ![p].points = FindUserPoints(userPoints, loc[p].userId)]
    /\ pc' = [pc EXCEPT ![p] = "cab_rows"]
    /\ UNCHANGED <<userPoints, metrics, badges, userBadges, userBadgesUnique,
                   ret, calls, awardCalls, reported>>
    /\ UNCHANGED appVars

\* getUserBadgeMetrics: const interactions = await ...findMany(...); the counting loop
CabReadRows(p) ==
    /\ pc[p] = "cab_rows"
    /\ loc' = [loc EXCEPT ![p].metrics =
                  BadgeMetrics(loc[p].points, metrics, loc[p].userId)]
    /\ pc' = [pc EXCEPT ![p] = "cab_badges"]
    /\ UNCHANGED <<userPoints, metrics, badges, userBadges, userBadgesUnique,
                   ret, calls, awardCalls, reported>>
    /\ UNCHANGED appVars

\* const allBadges = await db.query.badges.findMany()
CabReadBadges(p) ==
    /\ pc[p] = "cab_badges"
    /\ loc' = [loc EXCEPT ![p].allBadges = badges]
    /\ pc' = [pc EXCEPT ![p] = "cab_earned"]
    /\ UNCHANGED <<userPoints, metrics, badges, userBadges, userBadgesUnique,
                   ret, calls, awardCalls, reported>>
    /\ UNCHANGED appVars

\* return newlyAwarded: to the request, or to the confirmIngredients / confirmWaste
\* that awaited it and returns it as newBadges
CabReturn(p, newlyAwarded) ==
    /\ Finish(p, [op |-> loc[p].op, status |-> "ok",
                  userId |-> loc[p].userId, newlyAwarded |-> newlyAwarded,
                  before |-> loc[p].before, earnedBefore |-> loc[p].earnedBefore])
    /\ reported' = reported (+)
          SeqToBag([k \in 1..Len(newlyAwarded) |->
                      [userId |-> loc[p].userId, code |-> newlyAwarded[k].code]])

\* the loop runs on, with locals l, from definition `from`, to the next insert
\* or to the return
CabContinue(p, l, from) ==
    LET j == NextDef(l, from)
    IN  IF j = 0
        THEN CabReturn(p, l.newlyAwarded)
        ELSE /\ pc' = [pc EXCEPT ![p] = "cab_insert"]
             /\ loc' = [loc EXCEPT ![p] = [l EXCEPT !.i = j]]
             /\ UNCHANGED <<ret, reported>>

\* newlyAwarded.push({ code, name, pointsAwarded: dbBadge.pointsAwarded })
Pushed(l) ==
    [l EXCEPT !.newlyAwarded =
        Append(@, [code |-> BADGE_DEFINITIONS[l.i].code,
                   pointsAwarded |->
                      BadgeByCode(l.allBadges, BADGE_DEFINITIONS[l.i].code).pointsAwarded])]

\* const earnedUserBadges = await db.query.userBadges.findMany(...); the loop begins
CabReadEarned(p) ==
    /\ pc[p] = "cab_earned"
    /\ CabContinue(p, [loc[p] EXCEPT !.earnedBadgeIds =
                          EarnedBadgeIds(userBadges, loc[p].userId)], 1)
    /\ UNCHANGED <<userPoints, metrics, badges, userBadges, userBadgesUnique,
                   calls, awardCalls>>
    /\ UNCHANGED appVars

\* try { await db.insert(userBadges).values({ userId, badgeId: dbBadge.id }) ...
\* } catch (err) { if (UNIQUE constraint failed) continue; throw err; }
CabInsert(p) ==
    /\ pc[p] = "cab_insert"
    /\ LET dbBadge == BadgeByCode(loc[p].allBadges, BADGE_DEFINITIONS[loc[p].i].code)
           row == [userId |-> loc[p].userId, badgeId |-> dbBadge.id]
       IN  IF UserBadgeInsertFails(userBadges, userBadgesUnique, row)
           THEN /\ CabContinue(p, loc[p], loc[p].i + 1)
                /\ UNCHANGED userBadges
           ELSE /\ userBadges' = userBadges (+) SetToBag({row})
                /\ IF dbBadge.pointsAwarded > 0
                   THEN /\ pc' = [pc EXCEPT ![p] = "cab_find_points"]
                        /\ UNCHANGED <<loc, ret, reported>>
                   ELSE CabContinue(p, Pushed(loc[p]), loc[p].i + 1)
    /\ UNCHANGED <<userPoints, metrics, badges, userBadgesUnique, calls, awardCalls>>
    /\ UNCHANGED appVars

\* const userPoints = await db.query.userPoints.findFirst(...); if (userPoints) ...
CabFindPoints(p) ==
    /\ pc[p] = "cab_find_points"
    /\ LET found == FindUserPoints(userPoints, loc[p].userId)
       IN  IF found # NoRow
           THEN /\ pc' = [pc EXCEPT ![p] = "cab_update"]
                /\ loc' = [loc EXCEPT ![p].bonusPoints = found]
                /\ UNCHANGED <<ret, reported>>
           ELSE CabContinue(p, Pushed(loc[p]), loc[p].i + 1)
    /\ UNCHANGED <<userPoints, metrics, badges, userBadges, userBadgesUnique,
                   calls, awardCalls>>
    /\ UNCHANGED appVars

\* await db.update(userPoints)
\*   .set({ totalPoints: userPoints.totalPoints + dbBadge.pointsAwarded }).where(...)
CabUpdatePoints(p) ==
    /\ pc[p] = "cab_update"
    /\ LET dbBadge == BadgeByCode(loc[p].allBadges, BADGE_DEFINITIONS[loc[p].i].code)
       IN  userPoints' = SetTotalPoints(userPoints, loc[p].userId,
                            BonusTotal(loc[p].bonusPoints.totalPoints,
                                       dbBadge.pointsAwarded))
    /\ CabContinue(p, Pushed(loc[p]), loc[p].i + 1)
    /\ UNCHANGED <<metrics, badges, userBadges, userBadgesUnique, calls, awardCalls>>
    /\ UNCHANGED appVars

\* await testDb.insert(productSustainabilityMetrics).values({ userId, type, quantity: 1 })
RecordMetric(p, u, type) ==
    /\ pc[p] = "idle"
    /\ calls < MaxBadgeOps
    /\ calls' = calls + 1
    /\ metrics' = InsertMetric(metrics, MetricRow(u, type, Null, Num(1)))
    /\ ret' = [ret EXCEPT ![p] = [op |-> "recordMetric", status |-> "ok"]]
    /\ UNCHANGED <<userPoints, badges, userBadges, userBadgesUnique,
                   pc, loc, awardCalls, reported>>
    /\ UNCHANGED appVars

BadgeStep(p, u) ==
    \/ StartCheckAndAwardBadges(p, u)
    \/ CabReadPoints(p)
    \/ CabReadRows(p)
    \/ CabReadBadges(p)
    \/ CabReadEarned(p)
    \/ CabInsert(p)
    \/ CabFindPoints(p)
    \/ CabUpdatePoints(p)

\* n rows of one type, as the tests insert them
MetricRows(u, type, n) ==
    IF n = 0 THEN EmptyBag
    ELSE [r \in {MetricRow(u, type, Null, Num(1))} |-> n]

\* which badges the badges table holds
SeededCodeSets == {BadgeCodes, BadgeCodes \ {"first_consume"}}

\* user 1 with some recorded activity and no badge yet
InitBadgesWith(consumed, wasted, shared, sold, codeSets) ==
    /\ \E row \in {<< >>} \cup {<<SeededUserPoints(n)>> : n \in 0..MaxInitPoints} :
          userPoints = [u \in Users |-> IF u = 1 THEN row ELSE << >>]
    /\ \E c \in consumed, w \in wasted, sh \in shared, so \in sold :
          metrics = MetricRows(1, "consumed", c) (+) MetricRows(1, "wasted", w)
                    (+) MetricRows(1, "shared", sh) (+) MetricRows(1, "sold", so)
    /\ \E codes \in codeSets : badges = SeedBadges(codes)
    /\ userBadges = EmptyBag
    /\ userBadgesUnique \in BOOLEAN
    /\ pc = [p \in Procs |-> "idle"]
    /\ loc = [p \in Procs |-> Idle]
    /\ ret = [p \in Procs |-> Idle]
    /\ calls = 0
    /\ awardCalls = [u \in Users |-> 0]
    /\ reported = EmptyBag
    /\ AppOff

InitBadges ==
    InitBadgesWith(0..MaxConsumed, 0..MaxWasted, 0..MaxShared, 0..MaxSold,
                   SeededCodeSets)

\* one request at a time: badge checks, and metric rows recorded between them
NextBadges ==
    \/ BadgeStep(1, 1)
    \/ \E type \in PointActions : RecordMetric(1, 1, type)

SpecBadges == InitBadges /\ [][NextBadges]_vars

\* two requests of the same user whose badge checks overlap
InitRace == InitBadgesWith(0..1, {0}, {0}, 0..1, {BadgeCodes})

NextRace == \E p \in Procs : BadgeStep(p, 1)

SpecRace == InitRace /\ [][NextRace]_vars

----------------------------------------------------------------------------
(* What the finished calls are checked against *)

\* a user's stored totalPoints / totalCo2Saved in a table (0 without a row)
TotalOf(tbl, u) == IF Len(tbl[u]) = 0 THEN 0 ELSE tbl[u][1].totalPoints
Co2Of(tbl, u) == IF Len(tbl[u]) = 0 THEN 0 ELSE tbl[u][1].totalCo2Saved

MetricRowsOf(u) == LET Mine(r) == r.userId = u IN CountRows(metrics, Mine)

Returned(p, op) == ret[p].op = op /\ ret[p].status = "ok"

AllIdle == \A p \in Procs : pc[p] = "idle"

\* C1: points cannot go below zero: every stored totalPoints and every returned
\* newTotal is >= 0, and a wasted action on fewer than 3 points leaves exactly 0
C1_PointsNeverNegative ==
    /\ \A u \in Users : \A i \in 1..Len(userPoints[u]) :
          userPoints[u][i].totalPoints >= 0
    /\ \A p \in Procs : Returned(p, "awardPoints") =>
          /\ ret[p].newTotal >= 0
          /\ (ret[p].action = "wasted" /\ TotalOf(ret[p].before, ret[p].userId) < 3)
                => /\ ret[p].newTotal = 0
                   /\ TotalOf(userPoints, ret[p].userId) = 0

C1_Witness ==
    \E p \in Procs :
       /\ Returned(p, "awardPoints")
       /\ ret[p].action = "wasted"
       /\ TotalOf(ret[p].before, ret[p].userId) \in 1..2
       /\ TotalOf(userPoints, ret[p].userId) = 0

\* C7: awardPoints(user, action) takes the stored totalPoints from p to
\* max(0, p + v), v = +5 consumed, +10 shared, +8 sold, -3 wasted, and returns
\* that value as newTotal
C7_PointsAccumulate ==
    \A p \in Procs : Returned(p, "awardPoints") =>
       LET prior == TotalOf(ret[p].before, ret[p].userId)
           v == CASE ret[p].action = "consumed" -> 5
                  [] ret[p].action = "shared" -> 10
                  [] ret[p].action = "sold" -> 8
                  [] ret[p].action = "wasted" -> 0 - 3
       IN  /\ ret[p].amount = v
           /\ ret[p].newTotal = (IF prior + v > 0 THEN prior + v ELSE 0)
           /\ TotalOf(userPoints, ret[p].userId) = ret[p].newTotal
           /\ Len(userPoints[ret[p].userId]) = 1

C7_Witness ==
    \E p \in Procs :
       /\ Returned(p, "awardPoints")
       /\ awardCalls[ret[p].userId] = 2
       /\ ret[p].action = "sold"
       /\ TotalOf(ret[p].before, ret[p].userId) = 5
       /\ TotalOf(userPoints, ret[p].userId) = 13

\* C8: getOrCreateUserPoints never leaves two rows for a user; a first call
\* creates the row with totalPoints 0 and currentStreak 0, a call on an existing
\* row returns it and changes nothing
C8_NoDuplicateUserPoints ==
    /\ \A u \in Users : Len(userPoints[u]) <= 1
    /\ \A p \in Procs : ret[p].op = "getOrCreateUserPoints" =>
          LET u == ret[p].userId
          IN  /\ ret[p].status = "ok"
              /\ Len(userPoints[u]) = 1
              /\ ret[p].value = userPoints[u][1]
              /\ \A w \in Users \ {u} : userPoints[w] = ret[p].before[w]
              /\ IF Len(ret[p].before[u]) = 0
                 THEN /\ ret[p].value.totalPoints = 0
                      /\ ret[p].value.currentStreak = 0
                 ELSE userPoints[u] = ret[p].before[u]

C8_Witness ==
    \E p \in Procs :
       /\ Returned(p, "getOrCreateUserPoints")
       /\ Len(ret[p].before[ret[p].userId]) = 1
       /\ ret[p].value.totalPoints > 2
       /\ calls = 2

\* C9: every awardPoints call adds exactly one metric row of the acting user,
\* with type = action, the given productId (null when none) and the given
\* quantity (1 when none); a user's rows number the awardPoints calls made for it
C9_OneMetricPerAward ==
    /\ \A p \in Procs : Returned(p, "awardPoints") =>
          LET row == [productId |-> IF ret[p].productId = Undefined
                                    THEN Null ELSE ret[p].productId,
                      userId |-> ret[p].userId,
                      quantity |-> IF ret[p].quantity = Undefined
                                   THEN Num(1) ELSE ret[p].quantity,
                      type |-> ret[p].action]
          IN  metrics = ret[p].metricsBefore (+) SetToBag({row})
    /\ AllIdle => \A u \in Users : MetricRowsOf(u) = awardCalls[u]

C9_Witness ==
    \E p \in Procs :
       /\ Returned(p, "awardPoints")
       /\ ret[p].productId = Undefined
       /\ ret[p].quantity = Undefined
       /\ awardCalls[ret[p].userId] = 2
       /\ MetricRowsOf(ret[p].userId) = 2

\* C10: CO2 is credited only for sold actions: a sold action carrying co2Saved
\* adds it to the seller's totalCo2Saved and, with a buyerId, to the buyer's
\* (whose row is created if missing); any other action leaves every
\* totalCo2Saved as it was
C10_Co2OnlyForSold ==
    \A p \in Procs : Returned(p, "awardPoints") =>
       LET ld == ret[p].listingData
           carried == /\ ret[p].action = "sold"
                      /\ ld # Undefined
                      /\ ld.co2Saved # Null
                      /\ ld.co2Saved.n # 0
           c == IF carried THEN ld.co2Saved.n ELSE 0
           buyer(w) == carried /\ ld.buyerId # Null /\ ld.buyerId.n = w
       IN  /\ \A w \in Users :
                Co2Of(userPoints, w) =
                   Co2Of(ret[p].before, w)
                   + (IF w = ret[p].userId THEN c ELSE 0)
                   + (IF buyer(w) THEN c ELSE 0)
           /\ \A w \in Users : buyer(w) => Len(userPoints[w]) = 1
           /\ ret[p].co2Saved = (IF carried THEN ld.co2Saved ELSE Null)

C10_Witness ==
    \E p \in Procs :
       /\ Returned(p, "awardPoints")
       /\ ret[p].action = "sold"
       /\ ret[p].userId = 1
       /\ ret[p].listingData = [co2Saved |-> Num(3), buyerId |-> Num(2)]
       /\ Len(ret[p].before[2]) = 0
       /\ Co2Of(userPoints, 2) = 3
       /\ Co2Of(userPoints, 1) = 6

----------------------------------------------------------------------------
(* Badge checks *)

\* the codes of a returned newlyAwarded list
CodesOf(newlyAwarded) == {newlyAwarded[k].code : k \in 1..Len(newlyAwarded)}

RECURSIVE SumPointsAwarded(_)
SumPointsAwarded(newlyAwarded) ==
    IF newlyAwarded = << >> THEN 0
    ELSE Head(newlyAwarded).pointsAwarded + SumPointsAwarded(Tail(newlyAwarded))

\* the id of the badges row with a code (0 when the table has none)
BadgeIdOf(code) ==
    IF \E b \in badges : b.code = code
    THEN (CHOOSE b \in badges : b.code = code).id
    ELSE 0

\* a user's rows of one type in product_sustainability_metrics
RowsOfType(u, type) ==
    LET Is(r) == r.userId = u /\ r.type = type IN CountRows(metrics, Is)

ActionsOf(u) == RowsOfType(u, "consumed") + RowsOfType(u, "shared") + RowsOfType(u, "sold")
ItemsOf(u) == ActionsOf(u) + RowsOfType(u, "wasted")

\* C2: checkAndAwardBadges never awards a badge the user already holds: over a
\* sequence of calls each badge is returned as newly awarded at most once, and
\* user_badges holds at most one row per (user, badge)
C2_NoDoubleAward ==
    /\ \A r \in BagToSet(userBadges) : CopiesIn(r, userBadges) = 1
    /\ \A x \in BagToSet(reported) : CopiesIn(x, reported) = 1
    /\ \A p \in Procs : Returned(p, "checkAndAwardBadges") =>
          \A code \in CodesOf(ret[p].newlyAwarded) :
             CopiesIn([userId |-> ret[p].userId, badgeId |-> BadgeIdOf(code)],
                      ret[p].earnedBefore) = 0

C2_Witness ==
    \E p \in Procs :
       /\ Returned(p, "checkAndAwardBadges")
       /\ calls = 3
       /\ CopiesIn([userId |-> 1, badgeId |-> BadgeIdOf("first_action")],
                   ret[p].earnedBefore) = 1
       /\ ActionsOf(1) >= 10
       /\ CodesOf(ret[p].newlyAwarded) = {"eco_starter"}

\* C3: two overlapping checkAndAwardBadges runs of one user that both see a badge
\* as not yet earned: neither throws, the badge has exactly one user_badges row
\* afterwards, and only one run reports it as newly awarded
C3_RaceSafe ==
    /\ \A p \in Procs : ret[p].status # "threw"
    /\ \A r \in BagToSet(userBadges) : CopiesIn(r, userBadges) <= 1
    /\ \A x \in BagToSet(reported) : CopiesIn(x, reported) <= 1

\* C4: when checkAndAwardBadges returns, the user's stored totalPoints has gone
\* up by exactly the sum of pointsAwarded of the returned badges (by nothing
\* when the list is empty)
C4_BonusPointsAdded ==
    \A p \in Procs : Returned(p, "checkAndAwardBadges") =>
       TotalOf(userPoints, ret[p].userId) =
          TotalOf(ret[p].before, ret[p].userId) + SumPointsAwarded(ret[p].newlyAwarded)

\* C5: a call awards a badge exactly when the badges table has it, the user has
\* not earned it, and its threshold holds on the user's counters
\* (first_action: actions >= 1, eco_starter: actions >= 10,
\*  first_consume: consumed >= 1, first_sale: sold >= 1)
C5_ThresholdCheck ==
    \A p \in Procs : Returned(p, "checkAndAwardBadges") =>
       LET u == ret[p].userId
           Holds(code) ==
              CASE code = "first_action" -> ActionsOf(u) >= 1
                [] code = "eco_starter" -> ActionsOf(u) >= 10
                [] code = "first_consume" -> RowsOfType(u, "consumed") >= 1
                [] code = "first_sale" -> RowsOfType(u, "sold") >= 1
           Due(code) ==
              /\ \E b \in badges : b.code = code
              /\ CopiesIn([userId |-> u, badgeId |-> BadgeIdOf(code)],
                          ret[p].earnedBefore) = 0
              /\ Holds(code)
       IN  \A code \in {"first_action", "eco_starter", "first_consume", "first_sale"} :
              /\ code \in CodesOf(ret[p].newlyAwarded) <=> Due(code)
              /\ Due(code) =>
                    CopiesIn([userId |-> u, badgeId |-> BadgeIdOf(code)], userBadges) = 1

C5_Witness ==
    \E p \in Procs :
       /\ Returned(p, "checkAndAwardBadges")
       /\ RowsOfType(1, "consumed") = 10
       /\ RowsOfType(1, "sold") = 0
       /\ BadgeIdOf("first_consume") = 0
       /\ CodesOf(ret[p].newlyAwarded) = {"first_action", "eco_starter"}

\* C6: waste_warrior is awarded only when, at the check, the waste reduction rate
\* is >= 80% and at least 20 items are recorded; with fewer than 20 items it is
\* never earned, whatever the rate
C6_WasteWarrior ==
    /\ \A p \in Procs :
          (/\ Returned(p, "checkAndAwardBadges")
           /\ "waste_warrior" \in CodesOf(ret[p].newlyAwarded))
          => /\ ActionsOf(ret[p].userId) * 100 >= 80 * ItemsOf(ret[p].userId)
             /\ ItemsOf(ret[p].userId) >= 20
    /\ \A u \in Users :
          CopiesIn([userId |-> u, badgeId |-> BadgeIdOf("waste_warrior")], userBadges) > 0
             => ItemsOf(u) >= 20

C6_Witness ==
    \E p \in Procs :
       /\ Returned(p, "checkAndAwardBadges")
       /\ "waste_warrior" \in CodesOf(ret[p].newlyAwarded)
       /\ ItemsOf(1) = 20
       /\ ActionsOf(1) = 16

----------------------------------------------------------------------------
(* The read-only aggregations: getUserBadgeMetrics and getUserMetrics *)

\* the type values rows are recorded with
MetricTypes ==
    {"consumed", "Consumed", "consume", "Consume",
     "wasted", "WASTED", "waste", "Waste",
     "shared", "Shared", "sold", "SOLD", "expired"}

\* findMany({ where: eq(productSustainabilityMetrics.userId, userId) })
InteractionsOf_AllUsers(tbl, userId) == tbl

InteractionsOf(tbl, userId) ==
    LET S == {r \in BagToSet(tbl) : r.userId = userId}
    IN  [r \in S |-> CopiesIn(r, tbl)]

\* a floating-point quotient a / b, kept exact
Frac(a, b) == [num |-> a, den |-> b]

\* getUserMetrics, from the rows its query returned: the switch on interaction.type
UserMetrics(interactions) ==
    LET Consumed(r) == r.type = "consumed"
        Wasted(r) == r.type = "wasted"
        Shared(r) == r.type = "shared"
        Sold(r) == r.type = "sold"
        totalItemsConsumed == CountRows(interactions, Consumed)
        totalItemsWasted == CountRows(interactions, Wasted)
        totalItemsShared == CountRows(interactions, Shared)
        totalItemsSold == CountRows(interactions, Sold)
        totalItems == totalItemsConsumed + totalItemsWasted
                      + totalItemsShared + totalItemsSold
        itemsSaved == totalItemsConsumed + totalItemsShared + totalItemsSold
    IN  [totalItemsConsumed |-> totalItemsConsumed,
         totalItemsWasted |-> totalItemsWasted,
         totalItemsShared |-> totalItemsShared,
         totalItemsSold |-> totalItemsSold,
         wasteReductionRate |->
            IF totalItems > 0 THEN Frac(itemsSaved * 100, totalItems) ELSE Frac(100, 1),
         estimatedCo2Saved |-> Frac(itemsSaved, 2),
         estimatedMoneySaved |-> itemsSaved * 5]

\* getUserMetrics(db, userId): one query, then synchronous code
GetUserMetrics(p, u) ==
    /\ pc[p] = "idle"
    /\ calls < MaxMetricOps
    /\ calls' = calls + 1
    /\ ret' = [ret EXCEPT ![p] =
                 [op |-> "getUserMetrics", status |-> "ok", userId |-> u,
                  value |-> UserMetrics(InteractionsOf(metrics, u))]]
    /\ UNCHANGED <<userPoints, metrics, badges, userBadges, userBadgesUnique,
                   pc, loc, awardCalls, reported>>
    /\ UNCHANGED appVars

StartGetUserBadgeMetrics(p, u) ==
    /\ pc[p] = "idle"
    /\ calls < MaxMetricOps
    /\ calls' = calls + 1
    /\ pc' = [pc EXCEPT ![p] = "gbm_points"]
    /\ loc' = [loc EXCEPT ![p] =
                 [op |-> "getUserBadgeMetrics", userId |-> u, points |-> NoRow]]
    /\ ret' = [ret EXCEPT ![p] = Idle]
    /\ UNCHANGED <<userPoints, metrics, badges, userBadges, userBadgesUnique,
                   awardCalls, reported>>
    /\ UNCHANGED appVars

\* const userPoints = await db.query.userPoints.findFirst(...)
GbmReadPoints(p) ==
    /\ pc[p] = "gbm_points"
    /\ loc' = [loc EXCEPT ![p].points = FindUserPoints(userPoints, loc[p].userId)]
    /\ pc' = [pc EXCEPT ![p] = "gbm_rows"]
    /\ UNCHANGED <<userPoints, metrics, badges, userBadges, userBadgesUnique,
                   ret, calls, awardCalls, reported>>
    /\ UNCHANGED appVars

\* const interactions = await ...findMany(...); the counting loop; return
GbmReadRows(p) ==
    /\ pc[p] = "gbm_rows"
    /\ Finish(p, [op |-> "getUserBadgeMetrics", status |-> "ok",
                  userId |-> loc[p].userId,
                  value |-> BadgeMetrics(loc[p].points, metrics, loc[p].userId)])
    /\ UNCHANGED <<userPoints, metrics, badges, userBadges, userBadgesUnique,
                   calls, awardCalls, reported>>
    /\ UNCHANGED appVars

\* await testDb.insert(productSustainabilityMetrics).values({ userId, type, quantity: 1 })
RecordTyped(p, u, type) ==
    /\ pc[p] = "idle"
    /\ calls < MaxMetricOps
    /\ calls' = calls + 1
    /\ metrics' = InsertMetric(metrics, MetricRow(u, type, Null, Num(1)))
    /\ ret' = [ret EXCEPT ![p] = [op |-> "recordMetric", status |-> "ok"]]
    /\ UNCHANGED <<userPoints, badges, userBadges, userBadgesUnique,
                   pc, loc, awardCalls, reported>>
    /\ UNCHANGED appVars

\* both users exist, with no recorded activity; user 1 has a user_points row
InitMetrics ==
    /\ userPoints = [u \in Users |-> IF u = 1 THEN <<SeededUserPoints(0)>> ELSE << >>]
    /\ metrics = EmptyBag
    /\ badges = SeedBadges(BadgeCodes)
    /\ userBadges = EmptyBag
    /\ userBadgesUnique = TRUE
    /\ pc = [p \in Procs |-> "idle"]
    /\ loc = [p \in Procs |-> Idle]
    /\ ret = [p \in Procs |-> Idle]
    /\ calls = 0
    /\ awardCalls = [u \in Users |-> 0]
    /\ reported = EmptyBag
    /\ AppOff

NextMetrics ==
    \/ \E u \in Users, type \in MetricTypes : RecordTyped(1, u, type)
    \/ \E u \in Users : GetUserMetrics(1, u)
    \/ \E u \in Users : StartGetUserBadgeMetrics(1, u)
    \/ GbmReadPoints(1)
    \/ GbmReadRows(1)

SpecMetrics == InitMetrics /\ [][NextMetrics]_vars

\* rows of user u whose type is one of the given spellings
TypedRows(u, spellings) ==
    LET Is(r) == r.userId = u /\ r.type \in spellings IN CountRows(metrics, Is)

ConsumedSpellings == {"consumed", "Consumed", "consume", "Consume"}
WastedSpellings == {"wasted", "WASTED", "waste", "Waste"}
SharedSpellings == {"shared", "Shared"}
SoldSpellings == {"sold", "SOLD"}

\* C11: getUserBadgeMetrics returns totalActions = consumed + shared + sold,
\* totalItems = totalActions + wasted and wasteReductionRate = totalActions /
\* totalItems * 100 (0 without rows); types are matched whatever their case, and
\* 'consume' / 'waste' count as consumed / wasted
C11_BadgeMetricsAggregate ==
    \A p \in Procs : Returned(p, "getUserBadgeMetrics") =>
       LET u == ret[p].userId
           m == ret[p].value
       IN  /\ m.totalConsumed = TypedRows(u, ConsumedSpellings)
           /\ m.totalWasted = TypedRows(u, WastedSpellings)
           /\ m.totalShared = TypedRows(u, SharedSpellings)
           /\ m.totalSold = TypedRows(u, SoldSpellings)
           /\ m.totalActions = m.totalConsumed + m.totalShared + m.totalSold
           /\ m.totalItems = m.totalActions + m.totalWasted
           /\ IF m.totalItems = 0
              THEN m.wasteReductionRate.num = 0
              ELSE m.wasteReductionRate.num * m.totalItems
                      = m.totalActions * 100 * m.wasteReductionRate.den

C11_Witness ==
    \E p \in Procs :
       /\ Returned(p, "getUserBadgeMetrics")
       /\ ret[p].userId = 1
       /\ TypedRows(1, {"Consume"}) = 1
       /\ TypedRows(1, {"WASTED"}) = 1
       /\ ret[p].value.totalConsumed = 1
       /\ ret[p].value.totalWasted = 1
       /\ ret[p].value.wasteReductionRate = Frac(100, 2)

\* C12: the counters and the rate getUserMetrics(u) returns are those of the
\* rows whose userId is u; rows recorded for another user change nothing
C12_OnlyOwnMetrics ==
    \A p \in Procs : Returned(p, "getUserMetrics") =>
       LET u == ret[p].userId
           m == ret[p].value
           saved == TypedRows(u, {"consumed"}) + TypedRows(u, {"shared"})
                    + TypedRows(u, {"sold"})
           items == saved + TypedRows(u, {"wasted"})
       IN  /\ m.totalItemsConsumed = TypedRows(u, {"consumed"})
           /\ m.totalItemsWasted = TypedRows(u, {"wasted"})
           /\ m.totalItemsShared = TypedRows(u, {"shared"})
           /\ m.totalItemsSold = TypedRows(u, {"sold"})
           /\ m.wasteReductionRate =
                 IF items > 0 THEN Frac(saved * 100, items) ELSE Frac(100, 1)
           /\ m.estimatedCo2Saved = Frac(saved, 2)
           /\ m.estimatedMoneySaved = saved * 5

C12_Witness ==
    \E p \in Procs :
       /\ Returned(p, "getUserMetrics")
       /\ ret[p].userId = 1
       /\ TypedRows(2, {"consumed"}) = 1
       /\ TypedRows(2, {"wasted"}) = 1
       /\ TypedRows(1, {"consumed"}) = 0
       /\ ret[p].value.totalItemsConsumed = 0
       /\ ret[p].value.wasteReductionRate = Frac(100, 1)

----------------------------------------------------------------------------
(* Consumption: confirmIngredients and confirmWaste record the interactions  *)
(* and then await checkAndAwardBadges, whose list they return as newBadges   *)

\* the locals of the badge check a consumption call runs
ConfirmLocals(op, u, n) ==
    [op |-> op, userId |-> u, n |-> n,
     points |-> NoRow, metrics |-> NoRow, allBadges |-> {},
     earnedBadgeIds |-> {}, newlyAwarded |-> << >>, i |-> 0,
     bonusPoints |-> NoRow,
     before |-> userPoints, earnedBefore |-> userBadges]

\* confirmIngredients(db, userId, ingredients) with n ingredients
StartConfirmIngredients(p, u, n) ==
    /\ pc[p] = "idle"
    /\ calls < MaxConfirmOps
    /\ calls' = calls + 1
    /\ pc' = [pc EXCEPT ![p] = "ci_insert"]
    /\ loc' = [loc EXCEPT ![p] = ConfirmLocals("confirmIngredients", u, n)]
    /\ ret' = [ret EXCEPT ![p] = Idle]
    /\ UNCHANGED <<userPoints, metrics, badges, userBadges, userBadgesUnique,
                   awardCalls, reported>>
    /\ UNCHANGED appVars

\* one 'consumed' interaction per ingredient (interactionIds); the badge check follows
CiInsert(p) ==
    /\ pc[p] = "ci_insert"
    /\ metrics' = metrics (+) MetricRows(loc[p].userId, "consumed", loc[p].n)
    /\ pc' = [pc EXCEPT ![p] = "cab_points"]
    /\ UNCHANGED <<userPoints, badges, userBadges, userBadgesUnique,
                   loc, ret, calls, awardCalls, reported>>
    /\ UNCHANGED appVars

\* confirmWaste(db, userId, ingredients, wasteItems) with n wasted items
StartConfirmWaste(p, u, n) ==
    /\ pc[p] = "idle"
    /\ calls < MaxConfirmOps
    /\ calls' = calls + 1
    /\ pc' = [pc EXCEPT ![p] = "cw_insert"]
    /\ loc' = [loc EXCEPT ![p] = ConfirmLocals("confirmWaste", u, n)]
    /\ ret' = [ret EXCEPT ![p] = Idle]
    /\ UNCHANGED <<userPoints, metrics, badges, userBadges, userBadgesUnique,
                   awardCalls, reported>>
    /\ UNCHANGED appVars

\* one 'wasted' interaction per wasted item; the badge check follows
CwInsert(p) ==
    /\ pc[p] = "cw_insert"
    /\ metrics' = metrics (+) MetricRows(loc[p].userId, "wasted", loc[p].n)
    /\ pc' = [pc EXCEPT ![p] = "cab_points"]
    /\ UNCHANGED <<userPoints, badges, userBadges, userBadgesUnique,
                   loc, ret, calls, awardCalls, reported>>
    /\ UNCHANGED appVars

\* a brand-new user: no interactions, no badges, and either no user_points row
\* yet or one that holds 0 points
InitConsumption ==
    /\ \E row \in {<< >>, <<SeededUserPoints(0)>>} :
          userPoints = [u \in Users |-> IF u = 1 THEN row ELSE << >>]
    /\ metrics = EmptyBag
    /\ badges = SeedBadges(BadgeCodes)
    /\ userBadges = EmptyBag
    /\ userBadgesUnique = TRUE
    /\ pc = [p \in Procs |-> "idle"]
    /\ loc = [p \in Procs |-> Idle]
    /\ ret = [p \in Procs |-> Idle]
    /\ calls = 0
    /\ awardCalls = [u \in Users |-> 0]
    /\ reported = EmptyBag
    /\ AppOff

\* consumption requests only: no badge page, no separate badge check
NextConsumption ==
    \/ \E n \in 1..MaxIngredients : StartConfirmIngredients(1, 1, n)
    \/ CiInsert(1)
    \/ \E n \in 0..MaxIngredients : StartConfirmWaste(1, 1, n)
    \/ CwInsert(1)
    \/ CabReadPoints(1)
    \/ CabReadRows(1)
    \/ CabReadBadges(1)
    \/ CabReadEarned(1)
    \/ CabInsert(1)
    \/ CabFindPoints(1)
    \/ CabUpdatePoints(1)

SpecConsumption == InitConsumption /\ [][NextConsumption]_vars

\* rows of user_badges a user holds
UserBadgeRows(u) ==
    LET Is(r) == r.userId = u IN CountRows(userBadges, Is)

----------------------------------------------------------------------------
(* Messaging: the conversation routes.  A request is made by an authenticated *)
(* user; each awaited query is one step.                                      *)

ChatUsers == {1, 2, 3}

\* parseInt of a path parameter that is not a number: a value apart from every id
NaN == 0 - 1

\* the listings the marketplace holds: an active and a sold one of user 1, an
\* active one of user 3
SeededListings ==
    <<[id |-> 1, sellerId |-> 1, status |-> "active"],
      [id |-> 2, sellerId |-> 1, status |-> "sold"],
      [id |-> 3, sellerId |-> 3, status |-> "active"]>>

\* an id no row has
MissingId == 99

\* db.query.marketplaceListings.findFirst({ where: eq(id, listingId) })
FindListing(tbl, listingId) ==
    IF listingId \in DOMAIN tbl THEN tbl[listingId] ELSE NoRow

\* where: and(eq(listingId), eq(sellerId), eq(buyerId)): the first such row
ConversationMatches_AnyBuyer(row, listingId, sellerId, buyerId) ==
    row.listingId = listingId /\ row.sellerId = sellerId

ConversationMatches(row, listingId, sellerId, buyerId) ==
    row.listingId = listingId /\ row.sellerId = sellerId /\ row.buyerId = buyerId

FindConversation(tbl, listingId, sellerId, buyerId) ==
    LET S == {i \in 1..Len(tbl) :
                ConversationMatches(tbl[i], listingId, sellerId, buyerId)}
    IN  IF S = {} THEN NoRow ELSE tbl[CHOOSE i \in S : \A j \in S : i <= j]

\* or(eq(conversations.sellerId, user.id), eq(conversations.buyerId, user.id))
IsParty_Anyone(row, userId) == TRUE

IsParty(row, userId) == row.sellerId = userId \/ row.buyerId = userId

\* findFirst({ where: and(eq(conversations.id, id), or(seller is user, buyer is user)) })
FindConversationFor(tbl, id, userId) ==
    LET S == {i \in 1..Len(tbl) : tbl[i].id = id /\ IsParty(tbl[i], userId)}
    IN  IF S = {} THEN NoRow ELSE tbl[CHOOSE i \in S : TRUE]

\* findFirst({ where: eq(conversations.id, id) })
FindConversationById(tbl, id) ==
    LET S == {i \in 1..Len(tbl) : tbl[i].id = id}
    IN  IF S = {} THEN NoRow ELSE tbl[CHOOSE i \in S : TRUE]

\* insert(conversations).values({ listingId, sellerId, buyerId }).returning()
NewConversation(tbl, listingId, sellerId, buyerId) ==
    [id |-> Len(tbl) + 1, listingId |-> listingId,
     sellerId |-> sellerId, buyerId |-> buyerId]

\* insert(messages).values({ conversationId, senderId, messageText }); is_read defaults to 0
NewMessage(tbl, conversationId, senderId) ==
    [id |-> Len(tbl) + 1, conversationId |-> conversationId,
     senderId |-> senderId, isRead |-> FALSE]

\* findMany({ where: eq(messages.conversationId, id) })
MessagesOf(tbl, conversationId) ==
    SelectSeq(tbl, LAMBDA m : m.conversationId = conversationId)

\* a request starts: its handler runs up to its first await
StartRequest(p, op, user, args) ==
    /\ pc[p] = "idle"
    /\ calls < MaxChatOps
    /\ calls' = calls + 1
    /\ loc' = [loc EXCEPT ![p] =
                 [op |-> op, userId |-> user, args |-> args, row |-> NoRow,
                  before |-> conversations, messagesBefore |-> messages]]
    /\ ret' = [ret EXCEPT ![p] = Idle]
    /\ UNCHANGED <<gamVars, appVars>>

\* return json(value) / return error(..., code)
Respond(p, code, value) ==
    Finish(p, [op |-> loc[p].op, status |-> "ok", code |-> code,
               userId |-> loc[p].userId, args |-> loc[p].args, value |-> value,
               before |-> loc[p].before, messagesBefore |-> loc[p].messagesBefore])

\* GET /api/v1/conversations/:listingId/:otherUserId
StartOpenConversation(p, user, listingId, otherUserId) ==
    /\ StartRequest(p, "openConversation", user,
                    [listingId |-> listingId, otherUserId |-> otherUserId])
    /\ pc' = [pc EXCEPT ![p] = "oc_listing"]

\* the isNaN check; the listing is fetched; seller and buyer are determined
OcFindListing(p) ==
    /\ pc[p] = "oc_listing"
    /\ LET a == loc[p].args
           listing == FindListing(listings, a.listingId)
       IN  IF a.listingId = NaN \/ a.otherUserId = NaN
           THEN Respond(p, 400, Null)
           ELSE IF listing = NoRow
           THEN Respond(p, 404, Null)
           ELSE IF listing.sellerId = loc[p].userId
           THEN /\ pc' = [pc EXCEPT ![p] = "oc_find"]
                /\ loc' = [loc EXCEPT ![p] =
                             [@ EXCEPT !.args = [listingId |-> a.listingId,
                                                 otherUserId |-> a.otherUserId,
                                                 sellerId |-> loc[p].userId,
                                                 buyerId |-> a.otherUserId]]]
                /\ UNCHANGED ret
           ELSE IF listing.sellerId = a.otherUserId
           THEN /\ pc' = [pc EXCEPT ![p] = "oc_find"]
                /\ loc' = [loc EXCEPT ![p] =
                             [@ EXCEPT !.args = [listingId |-> a.listingId,
                                                 otherUserId |-> a.otherUserId,
                                                 sellerId |-> a.otherUserId,
                                                 buyerId |-> loc[p].userId]]]
                /\ UNCHANGED ret
           ELSE Respond(p, 400, Null)
    /\ UNCHANGED <<gamVars, appVars, calls>>

\* let conversation = await db.query.conversations.findFirst(...); if (!conversation) ...
OcFind(p) ==
    /\ pc[p] = "oc_find"
    /\ LET a == loc[p].args
           conversation == FindConversation(conversations, a.listingId,
                                            a.sellerId, a.buyerId)
       IN  IF conversation = NoRow
           THEN /\ pc' = [pc EXCEPT ![p] = "oc_insert"]
                /\ UNCHANGED <<loc, ret>>
           ELSE Respond(p, 200, conversation)
    /\ UNCHANGED <<gamVars, appVars, calls>>

\* const [newConv] = await db.insert(conversations).values({...}).returning()
OcInsert(p) ==
    /\ pc[p] = "oc_insert"
    /\ LET a == loc[p].args
           newConv == NewConversation(conversations, a.listingId, a.sellerId, a.buyerId)
       IN  /\ conversations' = Append(conversations, newConv)
           /\ loc' = [loc EXCEPT ![p].row = newConv]
    /\ pc' = [pc EXCEPT ![p] = "oc_refetch"]
    /\ UNCHANGED <<gamVars, listings, messages, sideVars, ret, calls>>

\* conversation = await db.query.conversations.findFirst({ where: eq(id, newConv.id) })
OcRefetch(p) ==
    /\ pc[p] = "oc_refetch"
    /\ Respond(p, 200, FindConversationById(conversations, loc[p].row.id))
    /\ UNCHANGED <<gamVars, appVars, calls>>

\* GET /api/v1/conversations/:id
StartGetConversation(p, user, id) ==
    /\ StartRequest(p, "getConversation", user, [id |-> id])
    /\ pc' = [pc EXCEPT ![p] = "gc_find"]

\* the isNaN check; findFirst by id and participant; 404 without a row
GcFind(p) ==
    /\ pc[p] = "gc_find"
    /\ LET conversation ==
              FindConversationFor(conversations, loc[p].args.id, loc[p].userId)
       IN  IF loc[p].args.id = NaN THEN Respond(p, 400, Null)
           ELSE IF conversation = NoRow THEN Respond(p, 404, Null)
           ELSE Respond(p, 200, conversation)
    /\ UNCHANGED <<gamVars, appVars, calls>>

\* GET /api/v1/conversations/:id/messages
StartListMessages(p, user, id) ==
    /\ StartRequest(p, "listMessages", user, [id |-> id])
    /\ pc' = [pc EXCEPT ![p] = "lm_verify"]

\* verify user is part of conversation
LmVerify(p) ==
    /\ pc[p] = "lm_verify"
    /\ LET conversation ==
              FindConversationFor(conversations, loc[p].args.id, loc[p].userId)
       IN  IF loc[p].args.id = NaN THEN Respond(p, 400, << >>)
           ELSE IF conversation = NoRow THEN Respond(p, 404, << >>)
           ELSE /\ pc' = [pc EXCEPT ![p] = "lm_read"]
                /\ UNCHANGED <<loc, ret>>
    /\ UNCHANGED <<gamVars, appVars, calls>>

\* const conversationMessages = await db.query.messages.findMany(...)
LmRead(p) ==
    /\ pc[p] = "lm_read"
    /\ Respond(p, 200, MessagesOf(messages, loc[p].args.id))
    /\ UNCHANGED <<gamVars, appVars, calls>>

\* POST /api/v1/conversations/:id/messages; valid: the body passes messageSchema
StartSendMessage(p, user, id, valid) ==
    /\ StartRequest(p, "sendMessage", user, [id |-> id, valid |-> valid])
    /\ pc' = [pc EXCEPT ![p] = "sm_verify"]

\* verify user is part of conversation; parseBody; messageSchema.parse(body)
SmVerify(p) ==
    /\ pc[p] = "sm_verify"
    /\ LET conversation ==
              FindConversationFor(conversations, loc[p].args.id, loc[p].userId)
       IN  IF loc[p].args.id = NaN THEN Respond(p, 400, << >>)
           ELSE IF conversation = NoRow THEN Respond(p, 404, << >>)
           ELSE IF ~loc[p].args.valid THEN Respond(p, 400, << >>)
           ELSE /\ pc' = [pc EXCEPT ![p] = "sm_insert"]
                /\ UNCHANGED <<loc, ret>>
    /\ UNCHANGED <<gamVars, appVars, calls>>

\* const [message] = await db.insert(messages).values({...}).returning()
SmInsert(p) ==
    /\ pc[p] = "sm_insert"
    /\ LET message == NewMessage(messages, loc[p].args.id, loc[p].userId)
       IN  /\ messages' = Append(messages, message)
           /\ loc' = [loc EXCEPT ![p].row = message]
    /\ pc' = [pc EXCEPT ![p] = "sm_touch"]
    /\ UNCHANGED <<gamVars, listings, conversations, sideVars, ret, calls>>

\* await db.update(conversations).set({ updatedAt: new Date() }).where(eq(id, conversationId))
SmTouch(p) ==
    /\ pc[p] = "sm_touch"
    /\ pc' = [pc EXCEPT ![p] = "sm_fetch"]
    /\ UNCHANGED <<gamVars, appVars, loc, ret, calls>>

\* const messageWithSender = await db.query.messages.findFirst({ where: eq(id, message.id) })
SmFetch(p) ==
    /\ pc[p] = "sm_fetch"
    /\ LET S == {i \in 1..Len(messages) : messages[i].id = loc[p].row.id}
       IN  Respond(p, 200, IF S = {} THEN << >> ELSE <<messages[CHOOSE i \in S : TRUE]>>)
    /\ UNCHANGED <<gamVars, appVars, calls>>

\* conversation-service getConversationById(conversationId, userId)
GetConversationById(p, id, user) ==
    /\ StartRequest(p, "getConversationById", user, [id |-> id])
    /\ pc' = [pc EXCEPT ![p] = "gcb_find"]

GcbFind(p) ==
    /\ pc[p] = "gcb_find"
    /\ LET conversation ==
              FindConversationFor(conversations, loc[p].args.id, loc[p].userId)
       IN  Respond(p, 200, IF conversation = NoRow THEN Undefined ELSE conversation)
    /\ UNCHANGED <<gamVars, appVars, calls>>

\* conversation-service isUserParticipant(conversationId, userId)
IsUserParticipant(p, id, user) ==
    /\ StartRequest(p, "isUserParticipant", user, [id |-> id])
    /\ pc' = [pc EXCEPT ![p] = "iup_find"]

IupFind(p) ==
    /\ pc[p] = "iup_find"
    /\ Respond(p, 200,
               FindConversationFor(conversations, loc[p].args.id, loc[p].userId) # NoRow)
    /\ UNCHANGED <<gamVars, appVars, calls>>

\* the gamification tables, not exercised by the messaging specifications
GamOff ==
    /\ userPoints = [u \in Users |-> << >>]
    /\ metrics = EmptyBag
    /\ badges = {}
    /\ userBadges = EmptyBag
    /\ userBadgesUnique = FALSE
    /\ awardCalls = [u \in Users |-> 0]
    /\ reported = EmptyBag

RequestsIdle ==
    /\ AuthOff
    /\ VendingOff
    /\ FridgeOff
    /\ pc = [p \in Procs |-> "idle"]
    /\ loc = [p \in Procs |-> Idle]
    /\ ret = [p \in Procs |-> Idle]
    /\ calls = 0

\* the seeded listings; no conversation yet
InitChat ==
    /\ GamOff
    /\ RequestsIdle
    /\ listings = SeededListings
    /\ conversations = << >>
    /\ messages = << >>

\* the conversation ids a request may name
ConversationIds == {1, 2, MissingId, NaN}

ChatStep(p) ==
    \/ \E u \in ChatUsers, l \in DOMAIN SeededListings \cup {MissingId, NaN},
          o \in ChatUsers \cup {NaN} : StartOpenConversation(p, u, l, o)
    \/ OcFindListing(p)
    \/ OcFind(p)
    \/ OcInsert(p)
    \/ OcRefetch(p)
    \/ \E u \in ChatUsers, c \in ConversationIds : StartGetConversation(p, u, c)
    \/ GcFind(p)
    \/ \E u \in ChatUsers, c \in ConversationIds : StartListMessages(p, u, c)
    \/ LmVerify(p)
    \/ LmRead(p)
    \/ \E u \in ChatUsers, c \in ConversationIds, valid \in BOOLEAN :
          StartSendMessage(p, u, c, valid)
    \/ SmVerify(p)
    \/ SmInsert(p)
    \/ SmTouch(p)
    \/ SmFetch(p)
    \/ \E u \in ChatUsers, c \in ConversationIds \ {NaN} : GetConversationById(p, c, u)
    \/ GcbFind(p)
    \/ \E u \in ChatUsers, c \in ConversationIds \ {NaN} : IsUserParticipant(p, c, u)
    \/ IupFind(p)

\* one request at a time
NextChat == ChatStep(1)

SpecChat == InitChat /\ [][NextChat]_vars

\* the rows of conversations with a given (listing, seller, buyer)
RowsOfTriple(tbl, listingId, sellerId, buyerId) ==
    {i \in 1..Len(tbl) : /\ tbl[i].listingId = listingId
                         /\ tbl[i].sellerId = sellerId
                         /\ tbl[i].buyerId = buyerId}

\* C14: opening a conversation is idempotent per (listing, buyer, seller): a
\* repeated request returns the id of the existing row and creates no row, a
\* first request creates exactly one, and conversations of the same listing
\* with different buyers are different conversations
C14_OpenIdempotent ==
    /\ \A i, j \in 1..Len(conversations) :
          (conversations[i].id = conversations[j].id
           \/ (/\ conversations[i].listingId = conversations[j].listingId
               /\ conversations[i].sellerId = conversations[j].sellerId
               /\ conversations[i].buyerId = conversations[j].buyerId))
          => i = j
    /\ \A p \in Procs :
          (Returned(p, "openConversation") /\ ret[p].code = 200) =>
             LET a == ret[p].args
                 was == RowsOfTriple(ret[p].before, a.listingId, a.sellerId, a.buyerId)
             IN  /\ ret[p].value.listingId = a.listingId
                 /\ ret[p].value.sellerId = a.sellerId
                 /\ ret[p].value.buyerId = a.buyerId
                 /\ \E i \in 1..Len(conversations) : conversations[i] = ret[p].value
                 /\ IF was # {}
                    THEN /\ \A i \in was : ret[p].before[i].id = ret[p].value.id
                         /\ conversations = ret[p].before
                    ELSE Len(conversations) = Len(ret[p].before) + 1

C14_Witness ==
    \E p \in Procs :
       /\ Returned(p, "openConversation")
       /\ ret[p].code = 200
       /\ ret[p].args.listingId = 1
       /\ ret[p].args.buyerId = 2
       /\ ret[p].value.id = 1
       /\ conversations = ret[p].before
       /\ Len(conversations) = 2
       /\ conversations[2].listingId = 1
       /\ conversations[2].buyerId = 3

\* whether user u is the seller or the buyer of an existing conversation c
IsSellerOrBuyer(c, u) ==
    \E i \in 1..Len(conversations) :
       /\ conversations[i].id = c
       /\ u \in {conversations[i].sellerId, conversations[i].buyerId}

\* C15: for a user who is neither seller nor buyer of a conversation, and for a
\* conversation that does not exist, the conversation, message-list and
\* send-message routes answer 404, return no message and insert none;
\* getConversationById returns nothing and isUserParticipant is false
C15_ParticipantsOnly ==
    \A p \in Procs :
       (/\ ret[p].status = "ok"
        /\ ret[p].op \in {"getConversation", "listMessages", "sendMessage",
                          "getConversationById", "isUserParticipant"}
        /\ ret[p].args.id # NaN
        /\ ~IsSellerOrBuyer(ret[p].args.id, ret[p].userId))
       => /\ messages = ret[p].messagesBefore
          /\ conversations = ret[p].before
          /\ CASE ret[p].op = "getConversation" ->
                     ret[p].code = 404 /\ ret[p].value = Null
               [] ret[p].op \in {"listMessages", "sendMessage"} ->
                     ret[p].code = 404 /\ ret[p].value = << >>
               [] ret[p].op = "getConversationById" -> ret[p].value = Undefined
               [] ret[p].op = "isUserParticipant" -> ret[p].value = FALSE

C15_Witness ==
    \E p \in Procs :
       /\ Returned(p, "sendMessage")
       /\ ret[p].userId = 3
       /\ ret[p].args = [id |-> 1, valid |-> TRUE]
       /\ ret[p].code = 404
       /\ Len(conversations) = 1
       /\ conversations[1].sellerId = 1
       /\ conversations[1].buyerId = 2
       /\ Len(messages) = 1

----------------------------------------------------------------------------
(* Messaging: the unread counter and mark-as-read of the conversation service *)

\* the conversations of a user (as seller or buyer) whose listing is not sold
OpenConversationIdsOf_WithSold(convs, lists, u) ==
    {convs[i].id : i \in {j \in 1..Len(convs) : IsParty(convs[j], u)}}

OpenConversationIdsOf(convs, lists, u) ==
    {convs[i].id : i \in {j \in 1..Len(convs) :
        /\ IsParty(convs[j], u)
        /\ FindListing(lists, convs[j].listingId).status # "sold"}}

\* count(*) of the messages of these conversations with is_read = 0 and another sender
CountUnread(msgs, convIds, u) ==
    Len(SelectSeq(msgs, LAMBDA m : /\ m.conversationId \in convIds
                                   /\ ~m.isRead
                                   /\ m.senderId # u))

\* update messages set is_read = 1 where conversation_id = c and sender <> u and is_read = 0
MarkRead_AllSenders(msgs, c, u) ==
    [i \in 1..Len(msgs) |->
       IF msgs[i].conversationId = c /\ ~msgs[i].isRead
       THEN [msgs[i] EXCEPT !.isRead = TRUE] ELSE msgs[i]]

MarkRead(msgs, c, u) ==
    [i \in 1..Len(msgs) |->
       IF msgs[i].conversationId = c /\ msgs[i].senderId # u /\ ~msgs[i].isRead
       THEN [msgs[i] EXCEPT !.isRead = TRUE] ELSE msgs[i]]

InboxRequest(p, op, user, args) ==
    /\ pc[p] = "idle"
    /\ calls < MaxInboxOps
    /\ calls' = calls + 1
    /\ loc' = [loc EXCEPT ![p] =
                 [op |-> op, userId |-> user, args |-> args, row |-> NoRow,
                  before |-> conversations, messagesBefore |-> messages]]
    /\ ret' = [ret EXCEPT ![p] = Idle]

\* getUnreadCountForUser(userId)
GetUnreadCountForUser(p, user) ==
    /\ InboxRequest(p, "getUnreadCountForUser", user, [id |-> 0])
    /\ pc' = [pc EXCEPT ![p] = "uc_count"]
    /\ UNCHANGED <<gamVars, appVars>>

UcCount(p) ==
    /\ pc[p] = "uc_count"
    /\ Respond(p, 200,
               CountUnread(messages,
                           OpenConversationIdsOf(conversations, listings, loc[p].userId),
                           loc[p].userId))
    /\ UNCHANGED <<gamVars, appVars, calls>>

\* markConversationAsRead(conversationId, userId)
MarkConversationAsRead(p, id, user) ==
    /\ InboxRequest(p, "markConversationAsRead", user, [id |-> id])
    /\ pc' = [pc EXCEPT ![p] = "mr_update"]
    /\ UNCHANGED <<gamVars, appVars>>

MrUpdate(p) ==
    /\ pc[p] = "mr_update"
    /\ messages' = MarkRead(messages, loc[p].args.id, loc[p].userId)
    /\ Respond(p, 200, Null)
    /\ UNCHANGED <<gamVars, listings, conversations, sideVars, calls>>

\* the conversations of buyer 2: with seller 1 on the active and on the sold
\* listing, and with seller 3 on another active listing
SeededConversations ==
    <<[id |-> 1, listingId |-> 1, sellerId |-> 1, buyerId |-> 2],
      [id |-> 2, listingId |-> 2, sellerId |-> 1, buyerId |-> 2],
      [id |-> 3, listingId |-> 3, sellerId |-> 3, buyerId |-> 2]>>

\* the messages a conversation's participants may have sent, read or not
SeededMessageKinds(convs) ==
    UNION {[conversationId : {convs[i].id},
            senderId : {convs[i].sellerId, convs[i].buyerId},
            isRead : BOOLEAN] : i \in 1..Len(convs)}

\* sequences of at most n elements of S
SeqUpTo(S, n) == UNION {[1..k -> S] : k \in 0..n}

\* some of the seeded conversations exist, holding some messages
InitInbox ==
    /\ GamOff
    /\ RequestsIdle
    /\ listings = SeededListings
    /\ \E k \in 0..Len(SeededConversations) :
          /\ conversations = SubSeq(SeededConversations, 1, k)
          /\ \E q \in SeqUpTo(SeededMessageKinds(SubSeq(SeededConversations, 1, k)),
                              MaxMessages) :
                messages = [i \in 1..Len(q) |->
                              [id |-> i, conversationId |-> q[i].conversationId,
                               senderId |-> q[i].senderId, isRead |-> q[i].isRead]]

\* <<conversation, user>> arguments of markConversationAsRead: the buyer on each
\* conversation and on a missing one, a seller on theirs, a user on a
\* conversation they are not part of
MarkInputs ==
    {<<1, 2>>, <<2, 2>>, <<3, 2>>, <<MissingId, 2>>, <<1, 1>>, <<3, 3>>, <<1, 3>>}

NextInbox ==
    \/ \E u \in ChatUsers : GetUnreadCountForUser(1, u)
    \/ UcCount(1)
    \/ \E in \in MarkInputs : MarkConversationAsRead(1, in[1], in[2])
    \/ MrUpdate(1)

SpecInbox == InitInbox /\ [][NextInbox]_vars

\* C16: getUnreadCountForUser(u) is the number of messages with is_read = 0, sent
\* by someone other than u, in the conversations where u is seller or buyer and
\* whose listing is not sold; it is 0 when u has no conversation
C16_UnreadCount ==
    \A p \in Procs : Returned(p, "getUnreadCountForUser") =>
       LET u == ret[p].userId
           Counted(i) ==
              /\ ~messages[i].isRead
              /\ messages[i].senderId # u
              /\ \E j \in 1..Len(conversations) :
                    /\ conversations[j].id = messages[i].conversationId
                    /\ u \in {conversations[j].sellerId, conversations[j].buyerId}
                    /\ listings[conversations[j].listingId].status # "sold"
       IN  /\ ret[p].value = Cardinality({i \in 1..Len(messages) : Counted(i)})
           /\ (\A j \in 1..Len(conversations) :
                  u \notin {conversations[j].sellerId, conversations[j].buyerId})
              => ret[p].value = 0

C16_Witness ==
    \E p \in Procs :
       /\ Returned(p, "getUnreadCountForUser")
       /\ ret[p].userId = 2
       /\ ret[p].value = 2
       /\ Len(messages) = 3
       /\ messages[1] = [id |-> 1, conversationId |-> 1, senderId |-> 1, isRead |-> FALSE]
       /\ messages[2] = [id |-> 2, conversationId |-> 2, senderId |-> 1, isRead |-> FALSE]
       /\ messages[3] = [id |-> 3, conversationId |-> 3, senderId |-> 3, isRead |-> FALSE]

\* C17: markConversationAsRead(c, u) sets is_read on exactly the unread messages
\* of c not sent by u; messages sent by u and the messages of every other
\* conversation keep their is_read value
C17_MarkReadFrame ==
    \A p \in Procs : Returned(p, "markConversationAsRead") =>
       LET c == ret[p].args.id
           u == ret[p].userId
           old == ret[p].messagesBefore
       IN  /\ Len(messages) = Len(old)
           /\ conversations = ret[p].before
           /\ \A i \in 1..Len(old) :
                 /\ messages[i].id = old[i].id
                 /\ messages[i].conversationId = old[i].conversationId
                 /\ messages[i].senderId = old[i].senderId
                 /\ messages[i].isRead =
                       (old[i].isRead \/ (old[i].conversationId = c /\ old[i].senderId # u))

C17_Witness ==
    \E p \in Procs :
       /\ Returned(p, "markConversationAsRead")
       /\ ret[p].userId = 2
       /\ ret[p].args.id = 1
       /\ Len(messages) = 3
       /\ \A i \in 1..3 : ~ret[p].messagesBefore[i].isRead
       /\ messages[1] = [id |-> 1, conversationId |-> 1, senderId |-> 1, isRead |-> TRUE]
       /\ messages[2] = [id |-> 2, conversationId |-> 2, senderId |-> 1, isRead |-> FALSE]
       /\ messages[3] = [id |-> 3, conversationId |-> 1, senderId |-> 2, isRead |-> FALSE]

----------------------------------------------------------------------------
(* Authentication: authMiddleware in front of a protected handler *)

\* a signed JWT (by the server's secret or by another key) or text that is no JWT
Jwt(key, exp) == [k |-> "jwt", key |-> key, exp |-> exp]
Text(t) == [k |-> "text", text |-> t]

\* generateToken: signed with JWT_SECRET, expiring TOKEN_EXPIRY after it is issued
GenerateToken(iat) == Jwt("server", iat + TOKEN_EXPIRY)

\* the Authorization header `prefix + rest`; Null when the request has none
Header(prefix, rest) == [k |-> "header", prefix |-> prefix, rest |-> rest]

\* !authHeader: no header, or the empty string
Falsy(h) == h = Null \/ (h.prefix = "" /\ h.rest = Text(""))

\* authHeader.startsWith("Bearer ")
StartsWithBearer(h) == h.prefix = "Bearer "

\* authHeader.slice(7) of a header that starts with "Bearer "
Slice7(h) == h.rest

\* verifyToken: the payload, or null when jose.jwtVerify throws (not a JWT,
\* another key's signature, or the exp claim reached)
VerifyToken_IgnoreExp(token, clock) ==
    IF token.k = "jwt" /\ token.key = "server" THEN [sub |-> "1"] ELSE Null

VerifyToken(token, clock) ==
    IF token.k = "jwt" /\ token.key = "server" /\ token.exp > clock
    THEN [sub |-> "1"] ELSE Null

\* the response of authMiddleware, with what the request looked like
AuthRespond(p, code, hdr, startedAt, handledBefore) ==
    Finish(p, [op |-> "protected", status |-> "ok", code |-> code, header |-> hdr,
               startedAt |-> startedAt, handledBefore |-> handledBefore])

\* authMiddleware(req, next), up to its await of verifyToken
StartProtectedRequest(p, hdr) ==
    /\ pc[p] = "idle"
    /\ calls < MaxAuthOps
    /\ calls' = calls + 1
    /\ IF Falsy(hdr) \/ ~StartsWithBearer(hdr)
       THEN AuthRespond(p, 401, hdr, now, handled)
       ELSE /\ pc' = [pc EXCEPT ![p] = "am_verify"]
            /\ loc' = [loc EXCEPT ![p] =
                         [op |-> "protected", header |-> hdr, token |-> Slice7(hdr),
                          startedAt |-> now, handledBefore |-> handled]]
            /\ ret' = [ret EXCEPT ![p] = Idle]
    /\ UNCHANGED <<gamVars, appVars>>

\* verifyToken settles: 401, or req.user is set and next() runs the handler
AmVerify(p) ==
    /\ pc[p] = "am_verify"
    /\ IF VerifyToken(loc[p].token, now) = Null
       THEN /\ AuthRespond(p, 401, loc[p].header, loc[p].startedAt, loc[p].handledBefore)
            /\ UNCHANGED handled
       ELSE /\ handled' = handled + 1
            /\ AuthRespond(p, 200, loc[p].header, loc[p].startedAt, loc[p].handledBefore)
    /\ UNCHANGED <<gamVars, listings, conversations, messages, now, vm, timers,
                   fridgeVars, calls>>

\* a day passes
Tick ==
    /\ now < MaxNow
    /\ now' = now + 1
    /\ UNCHANGED <<gamVars, listings, conversations, messages, handled, vm, timers,
                   fridgeVars, pc, loc, ret, calls>>

\* tokens issued a week ago, today and tomorrow; a token of another key; no JWT
Tokens ==
    {GenerateToken(0 - TOKEN_EXPIRY), GenerateToken(0), GenerateToken(1),
     Jwt("other", TOKEN_EXPIRY), Text(""), Text("garbage")}

AuthHeaders ==
    {Null, Header("", Text(""))}
      \cup {Header(s, t) : s \in {"Bearer ", "Basic ", "bearer ", "Bearer"},
                           t \in Tokens}

InitAuth ==
    /\ GamOff
    /\ ChatOff
    /\ RequestsIdle

NextAuth ==
    \/ \E hdr \in AuthHeaders : StartProtectedRequest(1, hdr)
    \/ AmVerify(1)
    \/ Tick

SpecAuth == InitAuth /\ [][NextAuth]_vars

\* C18: a protected handler runs only for a header 'Bearer <token>' whose token
\* is signed by the server and not expired; for a missing header, another
\* scheme, or an invalid or expired token the response is 401 and the handler
\* was not invoked
C18_Unauthorized401 ==
    \A p \in Procs : Returned(p, "protected") =>
       LET h == ret[p].header
           bearer == h # Null /\ h.prefix = "Bearer "
           signed == bearer /\ h.rest.k = "jwt" /\ h.rest.key = "server"
           live == signed /\ h.rest.exp > ret[p].startedAt
       IN  /\ ret[p].code \in {200, 401}
           /\ ret[p].code = 200 => live /\ handled = ret[p].handledBefore + 1
           /\ ret[p].code = 401 => handled = ret[p].handledBefore
           /\ ~live => ret[p].code = 401

\* a request with an expired token of the server is answered 401 after an
\* earlier request was handled
C18_Witness ==
    \E p \in Procs :
       /\ Returned(p, "protected")
       /\ ret[p].code = 401
       /\ ret[p].header = Header("Bearer ", GenerateToken(0))
       /\ ret[p].startedAt >= TOKEN_EXPIRY
       /\ handled = 1
       /\ ret[p].handledBefore = 1

----------------------------------------------------------------------------
(* The vending machine: the useVendingMachine hook, its timers and its reserve call *)

ROWS == <<"A", "B", "C", "D", "E", "F">>
COLS == <<"1", "2", "3", "4", "5">>

\* what GET /marketplace/listings answers: a priced listing, one without a
\* price, one that is not available
ApiListings ==
    <<[id |-> 1, price |-> Num(2), status |-> "available"],
      [id |-> 2, price |-> Null, status |-> "available"],
      [id |-> 3, price |-> Num(1), status |-> "sold"]>>

\* mapListingsToSlots: the i-th listing goes to slot ROWS[.] COLS[.], row by row
MapListingsToSlots(ls) ==
    {[slotCode |-> <<ROWS[((i - 1) \div Len(COLS)) + 1], COLS[((i - 1) % Len(COLS)) + 1]>>,
      listing |-> ls[i]] : i \in 1..Len(ls)}

\* state.products.find((p) => p.slotCode === slotCode)
HasProduct(v, slot) == \E pr \in v.products : pr.slotCode = slot
FindProduct(v, slot) == CHOOSE pr \in v.products : pr.slotCode = slot

\* product.listing.price ?? 0
PriceOf(pr) == Coalesce(pr.listing.price, Num(0)).n

\* setState: the next state of the hook; `was` remembers the status left behind
SetState(next) ==
    vm' = [next EXCEPT !.was = IF next.status # vm.status THEN vm.status ELSE vm.was]

SetTimeout(kind) == timers' = [timers EXCEPT ![kind] = @ + 1]

\* a user operation of the hook is called
VmCall ==
    /\ calls < MaxVmOps
    /\ calls' = calls + 1

VmFrame == UNCHANGED <<gamVars, listings, conversations, messages, handled, now,
                        fridgeVars>>

\* loadProducts settles
LoadProducts(ok) ==
    /\ vm.loading
    /\ IF ok
       THEN LET products == MapListingsToSlots(
                               SelectSeq(ApiListings, LAMBDA l : l.status = "available"))
            IN  SetState([vm EXCEPT !.products = products, !.loading = FALSE,
                                    !.displayMessage =
                                       IF products # {} THEN "welcome" ELSE "no items"])
       ELSE SetState([vm EXCEPT !.loading = FALSE, !.error = "failed to load",
                                !.displayMessage = "error loading"])
    /\ VmFrame
    /\ UNCHANGED <<timers, pc, loc, ret, calls>>

\* the body of selectSlot(slotCode)
SelectSlotBody(slot) ==
    IF HasProduct(vm, slot)
    THEN /\ SetState([vm EXCEPT !.selectedSlot = slot, !.inputCode = slot,
                                !.status = "selecting", !.displayMessage = "title price"])
         /\ UNCHANGED timers
    ELSE /\ SetState([vm EXCEPT !.inputCode = slot, !.displayMessage = "empty slot",
                                !.status = "error"])
         /\ SetTimeout("emptySlot")

SelectSlot(slot) ==
    /\ VmCall
    /\ SelectSlotBody(slot)
    /\ VmFrame
    /\ UNCHANGED <<pc, loc, ret>>

\* pressKey(key)
PressKey(key) ==
    /\ VmCall
    /\ IF key = "OK"
       THEN IF Len(vm.inputCode) >= 2
            THEN SelectSlotBody(vm.inputCode)
            ELSE UNCHANGED <<vm, timers>>
       ELSE IF key = "C"
       THEN /\ SetState([vm EXCEPT !.inputCode = << >>, !.selectedSlot = NoSlot,
                                   !.status = "idle", !.displayMessage = "welcome"])
            /\ UNCHANGED timers
       ELSE LET newCode == SubSeq(vm.inputCode \o <<key>>, 1,
                                  IF Len(vm.inputCode) + 1 < 2
                                  THEN Len(vm.inputCode) + 1 ELSE 2)
            IN  /\ SetState([vm EXCEPT !.inputCode = newCode,
                                       !.displayMessage =
                                          IF Len(newCode) < 2 THEN "enter code" ELSE "code"])
                /\ UNCHANGED timers
    /\ VmFrame
    /\ UNCHANGED <<pc, loc, ret>>

\* insertCoin(amount)
InsertCoin(amount) ==
    /\ VmCall
    /\ LET newBalance == vm.balance + amount
           selected == vm.selectedSlot # NoSlot /\ HasProduct(vm, vm.selectedSlot)
       IN  SetState([vm EXCEPT
              !.balance = newBalance,
              !.status = IF selected THEN "paying" ELSE @,
              !.displayMessage =
                 IF selected
                 THEN IF newBalance >= PriceOf(FindProduct(vm, vm.selectedSlot))
                      THEN "ready" ELSE "insert more"
                 ELSE "balance, select an item"])
    /\ VmFrame
    /\ UNCHANGED <<timers, pc, loc, ret>>

\* dispense(), up to its await of the reserve call
Dispense(p) ==
    /\ pc[p] = "idle"
    /\ VmCall
    /\ ret' = [ret EXCEPT ![p] = Idle]
    /\ IF ~HasProduct(vm, vm.selectedSlot)
       THEN /\ SetState([vm EXCEPT !.status = "error", !.displayMessage = "no item selected"])
            /\ UNCHANGED <<pc, loc>>
       ELSE IF vm.balance < PriceOf(FindProduct(vm, vm.selectedSlot))
       THEN /\ SetState([vm EXCEPT !.status = "error", !.displayMessage = "insert more"])
            /\ UNCHANGED <<pc, loc>>
       ELSE /\ SetState([vm EXCEPT !.status = "dispensing", !.displayMessage = "dispensing"])
            /\ pc' = [pc EXCEPT ![p] = "dp_reserve"]
            /\ loc' = [loc EXCEPT ![p] =
                         [op |-> "dispense", selectedProduct |-> FindProduct(vm, vm.selectedSlot),
                          balance |-> vm.balance]]
    /\ VmFrame
    /\ UNCHANGED timers

\* the state after a successful reserve
Completed_KeepSlot(v, product, change) ==
    [v EXCEPT !.status = "complete",
              !.displayMessage = IF change > 0 THEN "enjoy, change" ELSE "enjoy",
              !.dispensedProduct = product.slotCode,
              !.balance = 0,
              !.inputCode = << >>,
              !.products = {pr \in @ : pr.slotCode # product.slotCode}]

Completed(v, product, change) ==
    [v EXCEPT !.status = "complete",
              !.displayMessage = IF change > 0 THEN "enjoy, change" ELSE "enjoy",
              !.dispensedProduct = product.slotCode,
              !.balance = 0,
              !.selectedSlot = NoSlot,
              !.inputCode = << >>,
              !.products = {pr \in @ : pr.slotCode # product.slotCode}]

\* POST /marketplace/listings/:id/reserve answered
DpReserved(p) ==
    /\ pc[p] = "dp_reserve"
    /\ SetState(Completed(vm, loc[p].selectedProduct,
                          loc[p].balance - PriceOf(loc[p].selectedProduct)))
    /\ SetTimeout("complete")
    /\ Finish(p, [op |-> "dispense", status |-> "ok"])
    /\ VmFrame
    /\ UNCHANGED calls

\* POST /marketplace/listings/:id/reserve failed
DpFailed(p) ==
    /\ pc[p] = "dp_reserve"
    /\ SetState([vm EXCEPT !.status = "error", !.displayMessage = "transaction failed"])
    /\ SetTimeout("failed")
    /\ Finish(p, [op |-> "dispense", status |-> "threw"])
    /\ VmFrame
    /\ UNCHANGED calls

\* returnCoins()
ReturnCoins ==
    /\ VmCall
    /\ IF vm.balance > 0
       THEN /\ SetState([vm EXCEPT !.balance = 0, !.displayMessage = "returned",
                                   !.status = IF vm.selectedSlot # NoSlot
                                              THEN "selecting" ELSE "idle"])
            /\ SetTimeout("returned")
       ELSE UNCHANGED <<vm, timers>>
    /\ VmFrame
    /\ UNCHANGED <<pc, loc, ret>>

\* reset()
Reset ==
    /\ VmCall
    /\ SetState([vm EXCEPT !.selectedSlot = NoSlot, !.inputCode = << >>, !.balance = 0,
                           !.status = "idle", !.displayMessage = "welcome",
                           !.dispensedProduct = NoSlot])
    /\ VmFrame
    /\ UNCHANGED <<timers, pc, loc, ret>>

\* a setTimeout callback runs
TimerFires(kind) ==
    /\ timers[kind] > 0
    /\ timers' = [timers EXCEPT ![kind] = @ - 1]
    /\ IF kind = "emptySlot"
       THEN SetState([vm EXCEPT !.status = "idle", !.displayMessage = "welcome",
                                !.inputCode = << >>])
       ELSE IF kind = "complete"
       THEN SetState([vm EXCEPT !.status = "idle", !.displayMessage = "welcome",
                                !.dispensedProduct = NoSlot])
       ELSE IF kind = "failed"
       THEN SetState([vm EXCEPT
                !.status = IF vm.selectedSlot # NoSlot THEN "selecting" ELSE "idle",
                !.displayMessage = IF vm.selectedSlot # NoSlot THEN "title price"
                                                               ELSE "welcome"])
       ELSE SetState([vm EXCEPT
                !.displayMessage = IF vm.selectedSlot # NoSlot THEN "select an item first"
                                                               ELSE "welcome"])
    /\ VmFrame
    /\ UNCHANGED <<pc, loc, ret, calls>>

\* the slots of the priced and of the free listing, and one that holds nothing
Slots == {<<"A", "1">>, <<"A", "2">>, <<"F", "5">>}
Keys == {"A", "1", "OK", "C"}
Coins == {1}

InitVending ==
    /\ GamOff
    /\ ChatOff
    /\ RequestsIdle

NextVending ==
    \/ \E ok \in BOOLEAN : LoadProducts(ok)
    \/ \E slot \in Slots : SelectSlot(slot)
    \/ \E key \in Keys : PressKey(key)
    \/ \E amount \in Coins : InsertCoin(amount)
    \/ \E p \in Procs : Dispense(p)
    \/ \E p \in Procs : DpReserved(p)
    \/ \E p \in Procs : DpFailed(p)
    \/ ReturnCoins
    \/ Reset
    \/ \E kind \in TimerKinds : TimerFires(kind)

SpecVending == InitVending /\ [][NextVending]_vars

\* the stages of the chain idle -> selecting -> paying -> dispensing -> complete
Stage(status) ==
    CASE status = "idle" -> 0
      [] status = "selecting" -> 1
      [] status = "paying" -> 2
      [] status = "dispensing" -> 3
      [] status = "complete" -> 4
      [] status = "error" -> 5

\* status moves forward along the chain, into error, out of error, or to idle
Linear(from, to) ==
    \/ to \in {"error", "idle"}
    \/ from = "error"
    \/ Stage(from) < Stage(to)

\* C19 as stated: every change of status advances along idle -> selecting ->
\* paying -> dispensing -> complete, enters error or returns to idle; none moves
\* back from a later stage to an earlier non-idle stage
C19_LinearStatus ==
    [][vm'.status # vm.status => Linear(vm.status, vm'.status)]_vars

\* C19 amended: a change of status that is not linear goes back to selecting
\* (selectSlot, returnCoins or the failed-reserve timer while a slot is
\* selected), or from dispensing back to paying (insertCoin while the reserve
\* call is in flight); status never goes back from complete to paying or
\* dispensing
C19_StatusSteps ==
    [][vm'.status # vm.status =>
          \/ Linear(vm.status, vm'.status)
          \/ vm'.status = "selecting" /\ vm'.selectedSlot # NoSlot
          \/ vm.status = "dispensing" /\ vm'.status = "paying"]_vars

\* returnCoins took the machine from paying back to selecting
C19_Witness ==
    /\ vm.status = "selecting"
    /\ vm.was = "paying"
    /\ vm.displayMessage = "returned"
    /\ vm.balance = 0

----------------------------------------------------------------------------
(* Overlapping point changes of one user *)

\* user 1 has a user_points row; request 1 awards points, request 2 awards
\* points or checks badges
InitOverlap ==
    /\ InitBadgesWith(0..1, {0}, {0}, {0}, {BadgeCodes})
    /\ userPoints[1] # << >>

\* the steps of the one awardPoints call of request p
OverlapAward(p) ==
    /\ ret[p] = Idle
    /\ \/ \E action \in PointActions :
             StartAwardPoints(p, 1, action, Undefined, Undefined, Undefined)
       \/ GocFind(p)
       \/ ApUpdatePoints(p)
       \/ ApInsertMetric(p)

\* the steps of the one checkAndAwardBadges call of request p
OverlapBadges(p) ==
    /\ ret[p] = Idle
    /\ BadgeStep(p, 1)

NextOverlap ==
    \/ \E p \in Procs : OverlapAward(p)
    \/ OverlapBadges(2)

SpecOverlap == InitOverlap /\ [][NextOverlap]_vars

\* the sum of the first j bonuses of a returned badge list
RECURSIVE BonusPrefix(_, _)
BonusPrefix(newlyAwarded, j) ==
    IF j = 0 THEN 0
    ELSE newlyAwarded[j].pointsAwarded + BonusPrefix(newlyAwarded, j - 1)

\* totalPoints after the two returned calls ran one after the other, from s
Serial(s, r1, r2) ==
    IF r2.op = "awardPoints"
    THEN {Max(0, Max(0, s + r1.amount) + r2.amount),
          Max(0, Max(0, s + r2.amount) + r1.amount)}
    ELSE LET n == Len(r2.newlyAwarded)
             all == BonusPrefix(r2.newlyAwarded, n)
         IN  {Max(0, s + BonusPrefix(r2.newlyAwarded, j) + r1.amount)
                 + (all - BonusPrefix(r2.newlyAwarded, j)) : j \in 0..n}

\* C20: after two overlapping point-changing calls of one user (two awardPoints,
\* or an awardPoints and a badge check with its bonus updates), both started on
\* the same stored total, the stored totalPoints is what running the changes
\* one after the other in some order gives
C20_NoLostUpdate ==
    (/\ Returned(1, "awardPoints")
     /\ ret[2].status = "ok"
     /\ ret[2].op \in {"awardPoints", "checkAndAwardBadges"}
     /\ TotalOf(ret[1].before, 1) = TotalOf(ret[2].before, 1))
       => TotalOf(userPoints, 1) \in Serial(TotalOf(ret[1].before, 1), ret[1], ret[2])

----------------------------------------------------------------------------
(* MyFridge: POST /api/v1/myfridge/products/:id/consume *)

\* consumeSchema: z.enum(["consumed", "wasted", "shared", "sold"])
ConsumeSchemaAccepts(body) == body.action \in PointActions

\* db.query.products.findFirst({ where: and(eq(id, productId), eq(userId, user.id)) })
FindFridgeProduct(tbl, id, u) ==
    IF \E r \in tbl : r.id = id /\ r.userId = u
    THEN CHOOSE r \in tbl : r.id = id /\ r.userId = u
    ELSE NoRow

\* marketplace_listings.product_id REFERENCES products(id) ON DELETE no action:
\* an enforcing connection refuses to delete a product that a listing names
ProductDeleteFails(tbl, enforced, id) ==
    enforced /\ \E r \in tbl : r.id = id /\ r.listed

\* db.delete(products).where(eq(products.id, productId))
DeleteProduct(tbl, id) == {r \in tbl : r.id # id}

\* product_sustainability_metrics.product_id REFERENCES products(id) ON DELETE
\* cascade: an enforcing connection deletes the product's metric rows with it
CascadeMetrics(tbl, enforced, id) ==
    IF enforced
    THEN [r \in {x \in BagToSet(tbl) : x.productId # Num(id)} |-> CopiesIn(r, tbl)]
    ELSE tbl

\* the handler up to its first database call: getUser, parseInt, parseBody,
\* consumeSchema.parse (a ZodError is answered 400)
StartConsume(p, u, id, body) ==
    /\ pc[p] = "idle"
    /\ calls < MaxConsumeOps
    /\ calls' = calls + 1
    /\ LET l == [op |-> "consume", userId |-> u, id |-> id, body |-> body,
                 product |-> NoRow, action |-> body.action,
                 productId |-> Undefined, quantity |-> Undefined,
                 listingData |-> Undefined, amount |-> 0,
                 gocUser |-> u, gocRet |-> "ap_update", gocDest |-> "userPoints",
                 userPoints |-> NoRow, buyerPoints |-> NoRow,
                 newTotal |-> 0, co2Saved |-> Null,
                 before |-> userPoints, metricsBefore |-> metrics,
                 fridgeBefore |-> fridge]
       IN  IF ConsumeSchemaAccepts(body)
           THEN /\ pc' = [pc EXCEPT ![p] = "cs_find"]
                /\ loc' = [loc EXCEPT ![p] = l]
                /\ ret' = [ret EXCEPT ![p] = Idle]
           ELSE /\ ret' = [ret EXCEPT ![p] =
                             [op |-> "consume", status |-> "ok", code |-> 400,
                              userId |-> u, id |-> id, body |-> body,
                              before |-> userPoints, metricsBefore |-> metrics,
                              fridgeBefore |-> fridge]]
                /\ UNCHANGED <<pc, loc>>
    /\ UNCHANGED <<gamVars, appVars>>

\* const product = await db.query.products.findFirst(...); if (!product) 404
CsFind(p) ==
    /\ pc[p] = "cs_find"
    /\ LET product == FindFridgeProduct(fridge, loc[p].id, loc[p].userId)
       IN  IF product = NoRow
           THEN Finish(p, ConsumeResult(p, 404))
           ELSE /\ pc' = [pc EXCEPT ![p] = "cs_record"]
                /\ loc' = [loc EXCEPT ![p].product = product]
                /\ UNCHANGED ret
    /\ UNCHANGED <<gamVars, appVars, calls>>

\* await recordProductSustainabilityMetrics(product.id, user.id, product.quantity,
\* data.action); then awardPoints(user.id, data.action) begins
CsRecord(p) ==
    /\ pc[p] = "cs_record"
    /\ metrics' = InsertMetric(metrics,
                     MetricRow(loc[p].userId, loc[p].action,
                               Num(loc[p].product.id), Num(loc[p].product.quantity)))
    /\ pc' = [pc EXCEPT ![p] = "goc_find"]
    /\ loc' = [loc EXCEPT ![p].amount = POINT_VALUES[loc[p].action]]
    /\ UNCHANGED <<userPoints, badges, userBadges, userBadgesUnique, awardCalls,
                   reported, appVars, ret, calls>>

\* await db.delete(products).where(eq(products.id, productId)); return json(...)
CsDelete(p) ==
    /\ pc[p] = "cs_delete"
    /\ IF ProductDeleteFails(fridge, foreignKeys, loc[p].id)
       THEN /\ Throw(p)
            /\ UNCHANGED <<fridge, metrics>>
       ELSE /\ fridge' = DeleteProduct(fridge, loc[p].id)
            /\ metrics' = CascadeMetrics(metrics, foreignKeys, loc[p].id)
            /\ Finish(p, ConsumeResult(p, 200))
    /\ UNCHANGED <<userPoints, badges, userBadges, userBadgesUnique, awardCalls,
                   reported, listings, conversations, messages, handled, now, vm,
                   timers, foreignKeys, calls>>

\* user 1's products, the second one named by a marketplace listing, and a
\* product of user 2
SeededFridge ==
    {[id |-> 1, userId |-> 1, quantity |-> 2, listed |-> FALSE],
     [id |-> 2, userId |-> 1, quantity |-> 1, listed |-> TRUE],
     [id |-> 3, userId |-> 2, quantity |-> 1, listed |-> FALSE]}

ConsumeBodies == {[action |-> "consumed"], [action |-> "wasted"], [action |-> "eaten"]}

ConsumeIds == {1, 2, 3, MissingId, NaN}

InitFridge ==
    /\ GamOff
    /\ ChatOff
    /\ AuthOff
    /\ VendingOff
    /\ pc = [p \in Procs |-> "idle"]
    /\ loc = [p \in Procs |-> Idle]
    /\ ret = [p \in Procs |-> Idle]
    /\ calls = 0
    /\ fridge = SeededFridge
    /\ foreignKeys \in BOOLEAN

\* the steps of a consume request of user 1
FridgeStep(p) ==
    \/ \E id \in ConsumeIds, body \in ConsumeBodies : StartConsume(p, 1, id, body)
    \/ CsFind(p)
    \/ CsRecord(p)
    \/ GocFind(p)
    \/ GocInsert(p)
    \/ ApUpdatePoints(p)
    \/ ApInsertMetric(p)
    \/ CsDelete(p)

\* one request at a time
NextFridge == FridgeStep(1)

SpecFridge == InitFridge /\ [][NextFridge]_vars

\* two requests, one each, that may overlap
NextFridgeRace == \E p \in Procs : ret[p] = Idle /\ FridgeStep(p)

SpecFridgeRace == InitFridge /\ [][NextFridgeRace]_vars

\* C21: over the consume requests made for one product, overlapping or not, at
\* most one is answered 200 (has recorded the metric and awarded points); points
\* are awarded at most once per product
C21_ConsumedOnce ==
    /\ \A i \in ConsumeIds :
          Cardinality({p \in Procs : Returned(p, "consume") /\ ret[p].id = i
                                       /\ ret[p].code = 200}) <= 1
    /\ (\A p \in Procs : ret[p] # Idle /\ ret[p].id = 1) => awardCalls[1] <= 1

----------------------------------------------------------------------------
(* Messaging: two get-or-create requests for one conversation that overlap *)

\* <<user, listing, other user>>: the buyer and the seller of listing 1 open
\* the conversation between them
OpenInputs == {<<2, 1, 1>>, <<1, 1, 2>>}

\* the steps of the one get-or-create request of request p
OpenStep(p) ==
    /\ ret[p] = Idle
    /\ \/ \E in \in OpenInputs : StartOpenConversation(p, in[1], in[2], in[3])
       \/ OcFindListing(p)
       \/ OcFind(p)
       \/ OcInsert(p)
       \/ OcRefetch(p)

NextChatRace == \E p \in Procs : OpenStep(p)

SpecChatRace == InitChat /\ [][NextChatRace]_vars

\* C23: at most one conversations row exists per (listing, seller, buyer) at
\* all times, also while two get-or-create requests for the triple overlap
C23_OneRowPerTriple ==
    \A i \in 1..Len(conversations) :
       Cardinality(RowsOfTriple(conversations, conversations[i].listingId,
                                conversations[i].sellerId,
                                conversations[i].buyerId)) = 1

\* ---------------------------------------------------------------------------
\* The conversation list and the deletion of a message (routes/conversations.ts)
\* ---------------------------------------------------------------------------

\* a request of SpecThread starts: its handler runs up to its first await
ThreadRequest(p, op, user, args) ==
    /\ pc[p] = "idle"
    /\ calls < MaxThreadOps
    /\ calls' = calls + 1
    /\ loc' = [loc EXCEPT ![p] =
                 [op |-> op, userId |-> user, args |-> args, row |-> NoRow,
                  before |-> conversations, messagesBefore |-> messages]]
    /\ ret' = [ret EXCEPT ![p] = Idle]

\* user.id === conv.sellerId ? conv.buyerId : conv.sellerId
OtherParty(conv, userId) ==
    IF userId = conv.sellerId THEN conv.buyerId ELSE conv.sellerId

\* select count(*) from messages where conversation_id = conv.id and
\* sender_id = the other participant
CountFromOther(msgs, conv, userId) ==
    Cardinality({i \in 1..Len(msgs) :
                    /\ msgs[i].conversationId = conv.id
                    /\ msgs[i].senderId = OtherParty(conv, userId)})

\* with: { messages: { orderBy: desc(createdAt), limit: 1 } } and
\* lastMessage: conv.messages[0] || null
LastMessage(msgs, conv) ==
    LET S == {i \in 1..Len(msgs) : msgs[i].conversationId = conv.id}
    IN  IF S = {} THEN Null
        ELSE Num(msgs[CHOOSE i \in S : \A j \in S : j <= i].id)

\* GET /api/v1/conversations
StartListConversations(p, user) ==
    /\ ThreadRequest(p, "listConversations", user, [id |-> 0])
    /\ pc' = [pc EXCEPT ![p] = "lc_find"]
    /\ UNCHANGED <<gamVars, appVars>>

\* findMany({ where: or(eq(sellerId, user.id), eq(buyerId, user.id)) })
LcFind(p) ==
    /\ pc[p] = "lc_find"
    /\ loc' = [loc EXCEPT ![p].row =
                 SelectSeq(conversations, LAMBDA c : IsParty(c, loc[p].userId))]
    /\ pc' = [pc EXCEPT ![p] = "lc_count"]
    /\ UNCHANGED <<gamVars, appVars, ret, calls>>

\* Promise.all of one count query per conversation; the list is answered
LcCount(p) ==
    /\ pc[p] = "lc_count"
    /\ LET rows == loc[p].row
       IN  Respond(p, 200,
                   {[id |-> rows[i].id,
                     otherUser |-> OtherParty(rows[i], loc[p].userId),
                     lastMessage |-> LastMessage(messages, rows[i]),
                     unreadCount |-> CountFromOther(messages, rows[i], loc[p].userId)]
                      : i \in 1..Len(rows)})
    /\ UNCHANGED <<gamVars, appVars, calls>>

\* findFirst({ where: eq(messages.id, messageId) })
FindMessage(msgs, id) ==
    LET S == {i \in 1..Len(msgs) : msgs[i].id = id}
    IN  IF S = {} THEN NoRow ELSE msgs[CHOOSE i \in S : TRUE]

\* the delete removes every message the sender wrote
DeleteMessageById_AllOfSender(msgs, id) ==
    SelectSeq(msgs, LAMBDA m : m.senderId # FindMessage(msgs, id).senderId)

\* db.delete(messages).where(eq(messages.id, messageId))
DeleteMessageById(msgs, id) == SelectSeq(msgs, LAMBDA m : m.id # id)

\* DELETE /api/v1/messages/:id; a :id that is not a number is answered 400 at once
StartDeleteMessage(p, user, id) ==
    /\ IF id = NaN
         THEN /\ pc[p] = "idle"
              /\ calls < MaxThreadOps
              /\ calls' = calls + 1
              /\ ret' = [ret EXCEPT ![p] =
                           [op |-> "deleteMessage", status |-> "ok", code |-> 400,
                            userId |-> user, args |-> [id |-> id], value |-> Null,
                            before |-> conversations, messagesBefore |-> messages]]
              /\ UNCHANGED <<pc, loc>>
         ELSE /\ ThreadRequest(p, "deleteMessage", user, [id |-> id])
              /\ pc' = [pc EXCEPT ![p] = "dm_find"]
    /\ UNCHANGED <<gamVars, appVars>>

\* the message is fetched; 404 when there is none, 403 when the user did not send it
DmFind(p) ==
    /\ pc[p] = "dm_find"
    /\ LET message == FindMessage(messages, loc[p].args.id)
       IN  IF message = NoRow
             THEN Respond(p, 404, Null)
             ELSE IF message.senderId # loc[p].userId
                    THEN Respond(p, 403, Null)
                    ELSE /\ pc' = [pc EXCEPT ![p] = "dm_delete"]
                         /\ UNCHANGED <<loc, ret>>
    /\ UNCHANGED <<gamVars, appVars, calls>>

DmDelete(p) ==
    /\ pc[p] = "dm_delete"
    /\ messages' = DeleteMessageById(messages, loc[p].args.id)
    /\ Respond(p, 200, Null)
    /\ UNCHANGED <<gamVars, listings, conversations, sideVars, calls>>

\* some of the seeded conversations exist, holding some read and unread messages
InitThread ==
    /\ GamOff
    /\ RequestsIdle
    /\ listings = SeededListings
    /\ \E k \in 1..Len(SeededConversations) :
          /\ conversations = SubSeq(SeededConversations, 1, k)
          /\ \E q \in SeqUpTo(SeededMessageKinds(SubSeq(SeededConversations, 1, k)),
                              MaxThreadMessages) :
                messages = [i \in 1..Len(q) |->
                              [id |-> i, conversationId |-> q[i].conversationId,
                               senderId |-> q[i].senderId, isRead |-> q[i].isRead]]

\* <<user, message>> arguments of DELETE /api/v1/messages/:id
DeleteInputs ==
    {<<1, 1>>, <<2, 1>>, <<3, 1>>, <<2, 2>>, <<1, MissingId>>, <<2, NaN>>}

NextThread ==
    \/ \E u \in ChatUsers : StartListConversations(1, u)
    \/ LcFind(1)
    \/ LcCount(1)
    \/ \E in \in DeleteInputs : StartDeleteMessage(1, in[1], in[2])
    \/ DmFind(1)
    \/ DmDelete(1)

SpecThread == InitThread /\ [][NextThread]_vars

\* messages of the conversation that the other participant sent and that userId
\* has not read
UnreadFromOther(msgs, convId, userId) ==
    {i \in 1..Len(msgs) : /\ msgs[i].conversationId = convId
                          /\ msgs[i].senderId # userId
                          /\ ~msgs[i].isRead}

\* C24: in the conversation list each conversation's unreadCount is the number of
\* unread messages from the other user: messages of the other user that are
\* already read and messages the current user sent are not counted
C24_UnreadInList ==
    \A p \in Procs : Returned(p, "listConversations") =>
       \A e \in ret[p].value :
          e.unreadCount =
             Cardinality(UnreadFromOther(messages, e.id, ret[p].userId))

\* the messages with the given id
MessagesWithId(msgs, id) == {i \in 1..Len(msgs) : msgs[i].id = id}

\* C25: only the sender can delete a message: a DELETE of a missing message
\* answers 404 and a DELETE by a user who did not send the message answers 403,
\* both leaving every message in place; a DELETE by the sender answers 200 and
\* removes that message and no other
C25_SenderOnlyDelete ==
    \A p \in Procs : Returned(p, "deleteMessage") /\ ret[p].args.id # NaN =>
       LET was == ret[p].messagesBefore
           id == ret[p].args.id
           S == MessagesWithId(was, id)
       IN  /\ S = {} => ret[p].code = 404 /\ messages = was
           /\ S # {} /\ (\A i \in S : was[i].senderId # ret[p].userId) =>
                 ret[p].code = 403 /\ messages = was
           /\ S # {} /\ (\A i \in S : was[i].senderId = ret[p].userId) =>
                 /\ ret[p].code = 200
                 /\ MessagesWithId(messages, id) = {}
                 /\ Len(messages) = Len(was) - 1
                 /\ \A i \in 1..Len(was) : was[i].id # id =>
                       \E j \in 1..Len(messages) : messages[j] = was[i]

\* the sender has deleted one of several messages
C25_Witness ==
    \E p \in Procs :
       /\ Returned(p, "deleteMessage")
       /\ ret[p].code = 200
       /\ Len(ret[p].messagesBefore) >= 2
       /\ \E i \in 1..Len(ret[p].messagesBefore) :
             /\ ret[p].messagesBefore[i].id # ret[p].args.id
             /\ ret[p].messagesBefore[i].senderId = ret[p].userId

====
